---- MODULE Spec2Model ----
(***************************************************************************)
(* Model of the hierarchical categorization core of photo_organizer:       *)
(* models/category.py (Category) and models/category_tree.py               *)
(* (CategoryTree).  Category objects live independently of the tree; the   *)
(* tree holds them in an insertion-ordered dict keyed by id plus a set of  *)
(* root ids.  Ids are modelled as integers (their order stands for the     *)
(* string order sorted() uses); None is 0.                                 *)
(***************************************************************************)
EXTENDS Integers, Sequences, FiniteSets, TLC

\* ---- bounds ----
NumIds == 3
NumImages == 2
MaxMinImages == 2
MaxOps == 6
NumPhotos == 3
MaxTags == 2
NumFeatures == 2
MaxSetting == 2
MaxCallbacks == 2
NumItems == 2
MaxWorkers == 2

None == 0
Ids == 1..NumIds
Images == 1..NumImages

VARIABLES
    parent_id,        \* Category.parent_id of every object (None = 0)
    child_ids,        \* Category.child_ids of every object
    image_ids,        \* Category.image_ids of every object
    categories,       \* CategoryTree._categories: the keys in insertion order
    root_categories,  \* CategoryTree._root_categories
    nops,             \* number of calls made so far (history, bounded)
    last,             \* the last call: name, arguments and outcome
    name,             \* Category.name of every object, a list of words
    images,           \* the list of Image objects handed to categorize
    settings,         \* the constructor arguments of the algorithms
    pc,               \* how far ContentBasedCategorization.categorize has run
    manager,          \* the StateManager: _state and the two callback dicts
    pool,             \* the WorkerPool of the batch: its fields and its futures
    threads,          \* where the threads of a batch stand, and what they saw
    core              \* the ApplicationCore: its flag and where process_images is

vars == <<parent_id, child_ids, image_ids, categories, root_categories, nops, last,
          name, images, settings, pc, manager, pool, threads, core>>

\* ---- helpers -----------------------------------------------------------

\* keys of the insertion-ordered dict
Keys(cats) == {cats[i] : i \in DOMAIN cats}

\* del d[k] on an insertion-ordered dict
DictDel(cats, k) == SelectSeq(cats, LAMBDA x : x # k)

\* the enumerations without repetition of a set S: the iteration order of a
\* Python set of strings is not specified, it is an input of every loop
\* over a set
RECURSIVE OrdersOf(_)
OrdersOf(S) ==
    IF S = {} THEN {<<>>}
    ELSE UNION {{<<x>> \o p : p \in OrdersOf(S \ {x})} : x \in S}

\* an iteration order for every set of ids at once
HashOrders == OrdersOf(Ids)

\* list(S) for a set S under the iteration order perm
ListOf(S, perm) == SelectSeq(perm, LAMBDA x : x \in S)

\* the heap as one value: the fields of the objects and of the tree
Heap == [parent_id |-> parent_id, child_ids |-> child_ids, image_ids |-> image_ids,
         categories |-> categories, root_categories |-> root_categories]

Ok(s) == [s |-> s, raised |-> FALSE]
Raise(s) == [s |-> s, raised |-> TRUE]

\* ---- Category ----------------------------------------------------------

would_create_cycle(s, self, child) ==
    \* the while loop inspects the first parent only and then breaks
    s.parent_id[self] # None /\ s.parent_id[self] = child

add_child(s, self, child) ==
    IF child = self THEN Raise(s)
    ELSE IF would_create_cycle(s, self, child) THEN Raise(s)
    ELSE Ok([s EXCEPT !.parent_id[child] = self,
                      !.child_ids[self] = @ \cup {child}])

remove_child(s, self, child) ==
    IF child \in s.child_ids[self]
    THEN [s EXCEPT !.child_ids[self] = @ \ {child}, !.parent_id[child] = None]
    ELSE s

add_image(s, self, image_id) ==
    [s EXCEPT !.image_ids[self] = @ \cup {image_id}]

\* remove_image written as a symmetric difference: an id that is not a member
\* is added
remove_image_toggles(s, self, image_id) ==
    IF image_id \in s.image_ids[self]
    THEN [s EXCEPT !.image_ids[self] = @ \ {image_id}]
    ELSE [s EXCEPT !.image_ids[self] = @ \cup {image_id}]

remove_image(s, self, image_id) ==
    IF image_id \in s.image_ids[self]
    THEN [s EXCEPT !.image_ids[self] = @ \ {image_id}]
    ELSE s

\* ---- CategoryTree ------------------------------------------------------

\* add_category without the duplicate check: the dict entry is overwritten
add_category_overwrites(s, category) ==
    LET s1 == IF category \in Keys(s.categories) THEN s
              ELSE [s EXCEPT !.categories = Append(@, category)]
    IN  IF s1.parent_id[category] = None
        THEN Ok([s1 EXCEPT !.root_categories = @ \cup {category}])
        ELSE IF s1.parent_id[category] \in Keys(s1.categories)
        THEN Ok([s1 EXCEPT !.child_ids[s1.parent_id[category]] = @ \cup {category}])
        ELSE Ok([s1 EXCEPT !.root_categories = @ \cup {category}])

add_category(s, category) ==
    IF category \in Keys(s.categories) THEN Raise(s)
    ELSE LET s1 == [s EXCEPT !.categories = Append(@, category)]
         IN  IF s1.parent_id[category] = None
             THEN Ok([s1 EXCEPT !.root_categories = @ \cup {category}])
             ELSE IF s1.parent_id[category] \in Keys(s1.categories)
             THEN Ok([s1 EXCEPT !.child_ids[s1.parent_id[category]] = @ \cup {category}])
             ELSE Ok([s1 EXCEPT !.root_categories = @ \cup {category}])

\* remove_category that makes the children roots but forgets to clear their
\* parent_id
remove_category_keeps_parent(s, category_id) ==
    IF category_id \notin Keys(s.categories) THEN s
    ELSE LET parent == s.parent_id[category_id]
             s1 == IF parent # None /\ parent \in Keys(s.categories)
                   THEN [s EXCEPT !.child_ids[parent] = @ \ {category_id}]
                   ELSE s
             kids == s1.child_ids[category_id] \cap Keys(s1.categories)
         IN  [s1 EXCEPT !.root_categories = (@ \cup kids) \ {category_id},
                        !.categories = DictDel(@, category_id)]

remove_category(s, category_id) ==
    IF category_id \notin Keys(s.categories) THEN s
    ELSE LET parent == s.parent_id[category_id]
             \* detach from the parent when the parent is in the tree
             s1 == IF parent # None /\ parent \in Keys(s.categories)
                   THEN [s EXCEPT !.child_ids[parent] = @ \ {category_id}]
                   ELSE s
             \* the children that are in the tree become roots
             kids == s1.child_ids[category_id] \cap Keys(s1.categories)
             s2 == [s1 EXCEPT !.parent_id = [c \in DOMAIN @ |-> IF c \in kids THEN None ELSE @[c]],
                              !.root_categories = @ \cup kids]
         IN  [s2 EXCEPT !.root_categories = @ \ {category_id},
                        !.categories = DictDel(@, category_id)]

add_image_to_category(s, image_id, category_id) ==
    IF category_id \notin Keys(s.categories) THEN Raise(s)
    ELSE Ok(add_image(s, category_id, image_id))

remove_image_from_category(s, image_id, category_id) ==
    IF category_id \notin Keys(s.categories) THEN s
    ELSE remove_image(s, category_id, image_id)

\* the loop "for child_id in list(source.child_ids)" of merge_categories;
\* add_child raises before it changes anything, remove_child has then
\* already detached the child
RECURSIVE merge_children(_, _, _, _)
merge_children(s, source, target, kids) ==
    IF kids = <<>> THEN Ok(s)
    ELSE LET child == Head(kids)
         IN  IF child \notin Keys(s.categories)
             THEN merge_children(s, source, target, Tail(kids))
             ELSE LET r == add_child(remove_child(s, source, child), target, child)
                  IN  IF r.raised THEN r
                      ELSE merge_children(r.s, source, target, Tail(kids))

\* merge_categories that moves the images but leaves the children to
\* remove_category
merge_categories_drops_children(s, source_id, target_id, perm) ==
    IF source_id \notin Keys(s.categories) \/ target_id \notin Keys(s.categories)
    THEN Raise(s)
    ELSE IF source_id = target_id THEN Ok(s)
    ELSE Ok(remove_category(
                [s EXCEPT !.image_ids[target_id] = @ \cup s.image_ids[source_id]],
                source_id))

merge_categories(s, source_id, target_id, perm) ==
    IF source_id \notin Keys(s.categories) \/ target_id \notin Keys(s.categories)
    THEN Raise(s)
    ELSE IF source_id = target_id THEN Ok(s)
    ELSE LET s1 == [s EXCEPT !.image_ids[target_id] = @ \cup s.image_ids[source_id]]
             r == merge_children(s1, source_id, target_id,
                                 ListOf(s1.child_ids[source_id], perm))
         IN  IF r.raised THEN r
             ELSE Ok(remove_category(r.s, source_id))

\* small_categories without the test for children
small_categories_any(s, m) ==
    SelectSeq(s.categories, LAMBDA c : Cardinality(s.image_ids[c]) < m)

\* the list comprehension at the top of optimize_hierarchy
small_categories(s, m) ==
    SelectSeq(s.categories,
              LAMBDA c : Cardinality(s.image_ids[c]) < m /\ s.child_ids[c] = {})

\* "for other_id, other in self._categories.items(): if ...: merge; break"
RECURSIVE find_other(_, _, _)
find_other(s, cat_id, cats) ==
    IF cats = <<>> THEN None
    ELSE IF Head(cats) # cat_id /\ s.child_ids[Head(cats)] = {} THEN Head(cats)
    ELSE find_other(s, cat_id, Tail(cats))

\* the category one turn of the loop of optimize_hierarchy merges cat_id
\* into (None: this turn merges nothing)
merge_target(s, cat_id) ==
    IF cat_id \notin Keys(s.categories) THEN None
    ELSE IF s.parent_id[cat_id] # None /\ s.parent_id[cat_id] \in Keys(s.categories)
    THEN s.parent_id[cat_id]
    ELSE IF Len(s.categories) > 1 THEN find_other(s, cat_id, s.categories)
    ELSE None

\* the loop "for cat_id in small_categories"; log records every merge made
\* with the source's state at the moment of the merge
RECURSIVE optimize_loop(_, _, _, _)
optimize_loop(s, todo, perm, log) ==
    IF todo = <<>> THEN [s |-> s, raised |-> FALSE, log |-> log]
    ELSE LET cat_id == Head(todo)
             target == merge_target(s, cat_id)
         IN  IF target = None THEN optimize_loop(s, Tail(todo), perm, log)
             ELSE LET r == merge_categories(s, cat_id, target, perm)
                      entry == [source |-> cat_id, target |-> target,
                                nimages |-> Cardinality(s.image_ids[cat_id]),
                                children |-> s.child_ids[cat_id]]
                  IN  IF r.raised
                      THEN [s |-> r.s, raised |-> TRUE, log |-> log]
                      ELSE optimize_loop(r.s, Tail(todo), perm, Append(log, entry))

\* optimize_hierarchy that drops the small categories instead of merging them
optimize_hierarchy_drops(s, min_images_per_category, perm) ==
    LET small == Keys(small_categories(s, min_images_per_category))
    IN  [s |-> [s EXCEPT !.categories = SelectSeq(@, LAMBDA c : c \notin small),
                         !.root_categories = @ \ small],
         raised |-> FALSE, log |-> <<>>]

optimize_hierarchy(s, min_images_per_category, perm) ==
    optimize_loop(s, small_categories(s, min_images_per_category), perm, <<>>)

\* get_all_images(): the union of the image_ids of the categories of the tree
get_all_images(s) ==
    UNION {s.image_ids[c] : c \in Keys(s.categories)}

\* sorted(xs): ascending, by insertion
RECURSIVE insert_sorted(_, _)
insert_sorted(x, xs) ==
    IF xs = <<>> THEN <<x>>
    ELSE IF x <= Head(xs) THEN <<x>> \o xs
    ELSE <<Head(xs)>> \o insert_sorted(x, Tail(xs))

RECURSIVE sorted(_)
sorted(xs) ==
    IF xs = <<>> THEN <<>> ELSE insert_sorted(Head(xs), sorted(Tail(xs)))

\* traverse(category_id, depth) of get_category_hierarchy.  A call deeper than
\* the number of ids revisits a category and so never ends: Python stops it
\* with RecursionError (raised).
RECURSIVE traverse(_, _, _, _)
RECURSIVE traverse_each(_, _, _, _)
traverse(s, perm, category_id, depth) ==
    IF depth > NumIds THEN [raised |-> TRUE, result |-> <<>>]
    ELSE IF category_id \notin Keys(s.categories) THEN [raised |-> FALSE, result |-> <<>>]
    ELSE LET sub == traverse_each(s, perm,
                                  sorted(ListOf(s.child_ids[category_id], perm)), depth + 1)
         IN  IF sub.raised THEN sub
             ELSE [raised |-> FALSE, result |-> <<<<category_id, depth>>>> \o sub.result]

\* "for x in sorted(...): traverse(x, depth)"
traverse_each(s, perm, ids, depth) ==
    IF ids = <<>> THEN [raised |-> FALSE, result |-> <<>>]
    ELSE LET first == traverse(s, perm, Head(ids), depth)
         IN  IF first.raised THEN first
             ELSE LET rest == traverse_each(s, perm, Tail(ids), depth)
                  IN  IF rest.raised THEN rest
                      ELSE [raised |-> FALSE, result |-> first.result \o rest.result]

get_category_hierarchy(s, perm) ==
    traverse_each(s, perm, sorted(ListOf(s.root_categories, perm)), 0)

\* Category.get_path(category_map): the path of the parent, then self.  A walk
\* longer than the number of objects is on a cycle and never ends: Python
\* stops it with RecursionError (raised).
RECURSIVE get_path(_, _, _)
get_path(s, self, depth) ==
    IF depth > NumIds THEN [raised |-> TRUE, result |-> <<>>]
    ELSE IF s.parent_id[self] = None THEN [raised |-> FALSE, result |-> <<self>>]
    ELSE IF s.parent_id[self] \notin Keys(s.categories)
    THEN [raised |-> FALSE, result |-> <<self>>]
    ELSE LET up == get_path(s, s.parent_id[self], depth + 1)
         IN  IF up.raised THEN up
             ELSE [raised |-> FALSE, result |-> Append(up.result, self)]

get_category_path(s, category_id) ==
    IF category_id \notin Keys(s.categories) THEN [raised |-> FALSE, result |-> <<>>]
    ELSE get_path(s, category_id, 0)

\* "len(path) - 1 if path else -1"
get_category_depth(s, category_id) ==
    LET path == get_category_path(s, category_id)
    IN  IF path.raised THEN [raised |-> TRUE, result |-> -1]
        ELSE [raised |-> FALSE,
              result |-> IF path.result # <<>> THEN Len(path.result) - 1 ELSE -1]

\* ---- images ------------------------------------------------------------

\* the ids of the Category objects a run of categorize creates (uuid4: each
\* one new); a run creates a category only for a list of images that is not
\* empty, at most one top level category and one subcategory for every image
CatIds == 1..(2 * NumPhotos)

\* the content tags the tagger gives out
Tags == {"beach", "sand", "ocean"}

\* str.title() of a tag
title == [t \in Tags |-> CASE t = "beach" -> "Beach"
                           [] t = "sand" -> "Sand"
                           [] t = "ocean" -> "Ocean"]

\* str.lower() of a word
lower(w) == IF \E t \in Tags : title[t] = w THEN CHOOSE t \in Tags : title[t] = w ELSE w

\* Category.name.lower(); a name is the list of its words, "Beach - Sand" is
\* <<"Beach", "Sand">>
lower_name(n) == [i \in DOMAIN n |-> lower(n[i])]

\* the lists of at most MaxTags tags, none twice
TagLists ==
    {tl \in UNION {[1..n -> Tags] : n \in 0..MaxTags} :
        \A i \in DOMAIN tl, j \in DOMAIN tl : tl[i] = tl[j] => i = j}

\* FeatureExtractor.extract_features raises for an image whose features are
\* NoFeatures; the other feature vectors are unit vectors, two of them equal
\* or orthogonal
NoFeatures == 0
Features == 1..NumFeatures

\* an empty CategoryTree and the Category objects not yet constructed; noted
\* is the list image.categories of every image, by its place in the list of
\* images: an Image is constructed without it
EmptyTree == [parent_id |-> [c \in CatIds |-> None],
              child_ids |-> [c \in CatIds |-> {}],
              image_ids |-> [c \in CatIds |-> {}],
              categories |-> <<>>,
              root_categories |-> {},
              name |-> [c \in CatIds |-> <<>>],
              noted |-> [k \in 1..NumPhotos |-> <<>>]]

\* the heap with the names and the lists image.categories
NamedHeap == [parent_id |-> parent_id, child_ids |-> child_ids, image_ids |-> image_ids,
              categories |-> categories, root_categories |-> root_categories,
              name |-> name,
              noted |-> [k \in 1..NumPhotos |-> images[k].categories]]

\* the id of the next Category constructed
fresh(s) == CHOOSE c \in DOMAIN s.parent_id :
                /\ c \notin Keys(s.categories)
                /\ \A d \in DOMAIN s.parent_id : d \notin Keys(s.categories) => c <= d

\* defaultdict(list)[key].append(x) on an insertion-ordered dict
append_to(groups, key, x) ==
    IF \E i \in DOMAIN groups : groups[i].key = key
    THEN [i \in DOMAIN groups |->
             IF groups[i].key = key THEN [groups[i] EXCEPT !.value = Append(@, x)]
             ELSE groups[i]]
    ELSE Append(groups, [key |-> key, value |-> <<x>>])

\* "for image in group: category_tree.add_image_to_category(image.path.name, id);
\*  image.categories.append(id)"; the members of a group are positions in the
\* list of images
RECURSIVE add_images(_, _, _, _)
add_images(s, category, members, imgs) ==
    IF members = <<>> THEN Ok(s)
    ELSE LET appended(r) ==
                 IF r.raised THEN r
                 ELSE add_images([r.s EXCEPT !.noted[Head(members)] = Append(@, category)],
                                 category, Tail(members), imgs)
         IN  appended(add_image_to_category(s, imgs[Head(members)].path.name, category))

\* "return category_tree" at the end of the try block of a categorize, or
\* "except Exception as e: raise CategorizationError(...) from e"
returned(r) ==
    IF r.raised THEN [raised |-> TRUE, exc |-> "CategorizationError", tree |-> EmptyTree]
    ELSE [raised |-> FALSE, exc |-> "", tree |-> r.s]

\* ---- ContentBasedCategorization ----------------------------------------

\* Counter.update over the tags of every image
count_tag_frequencies(imgs) ==
    [t \in Tags |-> Cardinality({<<k, j>> \in (DOMAIN imgs) \X (1..MaxTags) :
                                    /\ j \in DOMAIN imgs[k].content_tags
                                    /\ imgs[k].content_tags[j] = t})]

frequent_tags(imgs, cfg) ==
    {t \in Tags : /\ count_tag_frequencies(imgs)[t] > 0
                  /\ count_tag_frequencies(imgs)[t] >= cfg.min_tag_frequency}

\* primary_tag without the search for a frequent tag
primary_tag_first(content_tags, frequent) == Head(content_tags)

\* the first tag that is frequent, else the first tag
primary_tag(content_tags, frequent) ==
    LET hits == SelectSeq(content_tags, LAMBDA t : t \in frequent)
    IN  IF hits # <<>> THEN Head(hits) ELSE Head(content_tags)

RECURSIVE group_from(_, _, _, _)
group_from(imgs, k, frequent, tag_groups) ==
    IF k > Len(imgs) THEN tag_groups
    ELSE IF imgs[k].content_tags = <<>> THEN group_from(imgs, k + 1, frequent, tag_groups)
    ELSE group_from(imgs, k + 1, frequent,
                    append_to(tag_groups, primary_tag(imgs[k].content_tags, frequent), k))

group_by_primary_tags(imgs, frequent) == group_from(imgs, 1, frequent, <<>>)

RECURSIVE create_categories(_, _, _, _)
create_categories(s, tag_groups, imgs, cfg) ==
    IF tag_groups = <<>> THEN Ok(s)
    ELSE LET g == Head(tag_groups)
         IN  IF Len(g.value) < cfg.min_category_size
             THEN create_categories(s, Tail(tag_groups), imgs, cfg)
             ELSE LET category == fresh(s)
                      filled(r) ==
                          IF r.raised THEN r
                          ELSE add_images(r.s, category, g.value, imgs)
                      rest(r) ==
                          IF r.raised THEN r
                          ELSE create_categories(r.s, Tail(tag_groups), imgs, cfg)
                  IN  rest(filled(add_category(
                          [s EXCEPT !.name[category] = <<title[g.key]>>], category)))

\* the size, in multiples of min_category_size, from which a group is
\* subdivided
SubdivideFactor == 2

\* "for category in category_tree.categories.values():
\*      if category.name.lower() == tag.lower(): ...; break"
RECURSIVE find_named(_, _, _)
find_named(s, cats, tag) ==
    IF cats = <<>> THEN None
    ELSE IF lower_name(s.name[Head(cats)]) = <<lower(tag)>> THEN Head(cats)
    ELSE find_named(s, Tail(cats), tag)

\* secondary_tag_counts: the tags other than the primary one, counted over
\* the images of the group that have more than one tag
secondary_tag_counts(imgs, members, tag) ==
    [t \in Tags |-> Cardinality({<<i, j>> \in (DOMAIN members) \X (1..MaxTags) :
                                    /\ Len(imgs[members[i]].content_tags) > 1
                                    /\ j \in DOMAIN imgs[members[i]].content_tags
                                    /\ imgs[members[i]].content_tags[j] = t
                                    /\ t # tag})]

frequent_secondary_tags(imgs, members, tag, cfg) ==
    {t \in Tags : /\ secondary_tag_counts(imgs, members, tag)[t] > 0
                  /\ secondary_tag_counts(imgs, members, tag)[t] >= cfg.min_tag_frequency}

\* secondary_groups: every image of the group with more than one tag goes to
\* its first tag that is not the primary one and is frequent in the group
RECURSIVE group_by_secondary(_, _, _, _, _)
group_by_secondary(imgs, members, tag, frequent, secondary_groups) ==
    IF members = <<>> THEN secondary_groups
    ELSE LET k == Head(members)
             hits == SelectSeq(imgs[k].content_tags,
                               LAMBDA t : t # tag /\ t \in frequent)
         IN  IF Len(imgs[k].content_tags) <= 1 \/ hits = <<>>
             THEN group_by_secondary(imgs, Tail(members), tag, frequent, secondary_groups)
             ELSE group_by_secondary(imgs, Tail(members), tag, frequent,
                                     append_to(secondary_groups, Head(hits), k))

\* "for secondary_tag, subgroup_images in secondary_groups.items()"
RECURSIVE create_subgroups(_, _, _, _, _)
create_subgroups(s, parent, secondary_groups, imgs, cfg) ==
    IF secondary_groups = <<>> THEN Ok(s)
    ELSE LET g == Head(secondary_groups)
         IN  IF Len(g.value) < cfg.min_category_size
             THEN create_subgroups(s, parent, Tail(secondary_groups), imgs, cfg)
             ELSE LET subcategory == fresh(s)
                      attached(r) ==
                          IF r.raised THEN r
                          ELSE IF parent \in Keys(r.s.categories)
                          THEN add_child(r.s, parent, subcategory)
                          ELSE r
                      filled(r) ==
                          IF r.raised THEN r
                          ELSE add_images(r.s, subcategory, g.value, imgs)
                      rest(r) ==
                          IF r.raised THEN r
                          ELSE create_subgroups(r.s, parent, Tail(secondary_groups),
                                                imgs, cfg)
                  IN  rest(filled(attached(add_category(
                          [s EXCEPT !.name[subcategory] =
                                        s.name[parent] \o <<title[g.key]>>],
                          subcategory))))

RECURSIVE create_subcategories(_, _, _, _)
create_subcategories(s, tag_groups, imgs, cfg) ==
    IF tag_groups = <<>> THEN Ok(s)
    ELSE LET g == Head(tag_groups)
             parent_category == find_named(s, s.categories, g.key)
         IN  IF Len(g.value) < cfg.min_category_size * SubdivideFactor
             THEN create_subcategories(s, Tail(tag_groups), imgs, cfg)
             ELSE IF parent_category = None
             THEN create_subcategories(s, Tail(tag_groups), imgs, cfg)
             ELSE LET frequent == frequent_secondary_tags(imgs, g.value, g.key, cfg)
                      rest(r) ==
                          IF r.raised THEN r
                          ELSE create_subcategories(r.s, Tail(tag_groups), imgs, cfg)
                  IN  rest(create_subgroups(s, parent_category,
                               group_by_secondary(imgs, g.value, g.key, frequent, <<>>),
                               imgs, cfg))

\* the tag groups categorize works on
tag_groups_of(imgs, cfg) == group_by_primary_tags(imgs, frequent_tags(imgs, cfg))

\* ContentBasedCategorization.categorize: "CategorizationError" for every
\* exception, else the tree
content_categorize(imgs, cfg) ==
    LET tag_groups == tag_groups_of(imgs, cfg)
        subdivided(r) ==
            IF r.raised THEN r ELSE create_subcategories(r.s, tag_groups, imgs, cfg)
        optimized(r) ==
            IF r.raised THEN r ELSE optimize_hierarchy(r.s, cfg.min_category_size, <<>>)
    IN  returned(optimized(subdivided(
            create_categories(EmptyTree, tag_groups, imgs, cfg))))

\* ---- HierarchicalClustering --------------------------------------------

\* d[key] = value on an insertion-ordered dict
dict_set(d, key, value) ==
    IF \E i \in DOMAIN d : d[i].key = key
    THEN [i \in DOMAIN d |-> IF d[i].key = key THEN [d[i] EXCEPT !.value = value] ELSE d[i]]
    ELSE Append(d, [key |-> key, value |-> value])

\* _extract_features: features_map, keyed by str(image.path); an image whose
\* extraction raises is logged and left out
RECURSIVE extract_from(_, _, _)
extract_from(imgs, k, features_map) ==
    IF k > Len(imgs) THEN features_map
    ELSE IF imgs[k].features = NoFeatures THEN extract_from(imgs, k + 1, features_map)
    ELSE extract_from(imgs, k + 1, dict_set(features_map, imgs[k].path, imgs[k].features))

extract_features(imgs) == extract_from(imgs, 1, <<>>)

\* np.dot of two feature vectors
dot(f, g) == IF f = g THEN 1 ELSE 0

max(a, b) == IF a >= b THEN a ELSE b
min(a, b) == IF a <= b THEN a ELSE b

\* _compute_distance_matrix: row i belongs to the i-th entry of features_map
compute_distance_matrix(features_map) ==
    [i \in DOMAIN features_map |->
        [j \in DOMAIN features_map |->
            IF i = j THEN 0
            ELSE max(0, min(1, 1 - dot(features_map[i].value, features_map[j].value)))]]

\* fcluster(linkage(distance_matrix, "average"), 1 - similarity_threshold):
\* linkage takes the rows of a square matrix as observations; rows of zeros
\* and ones are equal or at least 1 apart, more than the cut, so two rows get
\* the same label exactly when they are equal.  The label is the number of
\* the first such row.  linkage raises ValueError for fewer than two rows.
fcluster(distance_matrix) ==
    IF Len(distance_matrix) < 2 THEN [raised |-> TRUE, result |-> <<>>]
    ELSE [raised |-> FALSE,
          result |-> [i \in DOMAIN distance_matrix |->
                         CHOOSE j \in DOMAIN distance_matrix :
                             /\ distance_matrix[j] = distance_matrix[i]
                             /\ \A h \in DOMAIN distance_matrix :
                                   distance_matrix[h] = distance_matrix[i] => j <= h]]

\* "for i, cluster_id in enumerate(clusters):
\*      cluster_groups[cluster_id].append(images[i])": i counts the labels,
\* images is the list categorize was given
RECURSIVE group_by_label(_, _, _)
group_by_label(labels, i, cluster_groups) ==
    IF i > Len(labels) THEN cluster_groups
    ELSE group_by_label(labels, i + 1, append_to(cluster_groups, labels[i], i))

\* sorted(xs, key = Len, reverse = True): stable
RECURSIVE insert_desc(_, _)
insert_desc(x, xs) ==
    IF xs = <<>> THEN <<x>>
    ELSE IF Len(x) > Len(Head(xs)) THEN <<x>> \o xs
    ELSE <<Head(xs)>> \o insert_desc(x, Tail(xs))

RECURSIVE sorted_desc(_)
sorted_desc(xs) ==
    IF xs = <<>> THEN <<>>
    ELSE insert_desc(xs[Len(xs)], sorted_desc(SubSeq(xs, 1, Len(xs) - 1)))

\* the cut to max_clusters without the sort
limit_clusters_unsorted(filtered_clusters, cfg) ==
    IF Len(filtered_clusters) > cfg.max_clusters
    THEN SubSeq(filtered_clusters, 1, cfg.max_clusters)
    ELSE filtered_clusters

\* "if len(filtered_clusters) > self.max_clusters: sort; cut"
limit_clusters(filtered_clusters, cfg) ==
    IF Len(filtered_clusters) > cfg.max_clusters
    THEN SubSeq(sorted_desc(filtered_clusters), 1, cfg.max_clusters)
    ELSE filtered_clusters

\* the values of a dict, in order
values(d) == [i \in DOMAIN d |-> d[i].value]

\* _cluster_images; groups keeps cluster_groups
cluster_images(distance_matrix, imgs, cfg) ==
    LET labels == fcluster(distance_matrix)
        cluster_groups == group_by_label(labels.result, 1, <<>>)
        filtered_clusters == SelectSeq(values(cluster_groups),
                                       LAMBDA cluster : Len(cluster) >= cfg.min_cluster_size)
    IN  IF labels.raised THEN [raised |-> TRUE, result |-> <<>>, groups |-> <<>>]
        ELSE [raised |-> FALSE, result |-> limit_clusters(filtered_clusters, cfg),
              groups |-> values(cluster_groups)]

\* the tags of the images of a cluster in the order Counter.update meets them
RECURSIVE tags_met(_, _, _)
tags_met(imgs, cluster, met) ==
    IF cluster = <<>> THEN met
    ELSE tags_met(imgs, Tail(cluster),
                  met \o SelectSeq(imgs[Head(cluster)].content_tags,
                                   LAMBDA t : \A i \in DOMAIN met : met[i] # t))

\* the number of images of the cluster that carry tag t
cluster_tag_count(imgs, cluster, t) ==
    Cardinality({i \in DOMAIN cluster :
                    \E j \in DOMAIN imgs[cluster[i]].content_tags :
                        imgs[cluster[i]].content_tags[j] = t})

\* Counter.most_common: by count, the larger first, ties in the order met
RECURSIVE insert_by_count(_, _, _, _)
insert_by_count(imgs, cluster, x, xs) ==
    IF xs = <<>> THEN <<x>>
    ELSE IF cluster_tag_count(imgs, cluster, x) > cluster_tag_count(imgs, cluster, Head(xs))
    THEN <<x>> \o xs
    ELSE <<Head(xs)>> \o insert_by_count(imgs, cluster, x, Tail(xs))

RECURSIVE most_common(_, _, _)
most_common(imgs, cluster, met) ==
    IF met = <<>> THEN <<>>
    ELSE insert_by_count(imgs, cluster, met[Len(met)],
                         most_common(imgs, cluster, SubSeq(met, 1, Len(met) - 1)))

\* the number of tags that make the name of a cluster
NameTags == 3

\* " & ".join(tag.title() for tag in common_tags)
RECURSIVE join_titles(_)
join_titles(common_tags) ==
    IF Len(common_tags) = 1 THEN <<title[Head(common_tags)]>>
    ELSE <<title[Head(common_tags)], "&">> \o join_titles(Tail(common_tags))

\* _generate_cluster_name; cluster_index counts from 0
generate_cluster_name(imgs, cluster, cluster_index) ==
    LET ranked == most_common(imgs, cluster, tags_met(imgs, cluster, <<>>))
        common_tags == SubSeq(ranked, 1, min(NameTags, Len(ranked)))
    IN  IF common_tags # <<>> THEN join_titles(common_tags)
        ELSE <<"Cluster", ToString(cluster_index + 1)>>

\* HierarchicalClustering._create_categories
RECURSIVE create_cluster_categories(_, _, _, _)
create_cluster_categories(s, clusters, i, imgs) ==
    IF i > Len(clusters) THEN Ok(s)
    ELSE LET category == fresh(s)
             filled(r) ==
                 IF r.raised THEN r
                 ELSE add_images(r.s, category, clusters[i], imgs)
             rest(r) ==
                 IF r.raised THEN r
                 ELSE create_cluster_categories(r.s, clusters, i + 1, imgs)
         IN  rest(filled(add_category(
                 [s EXCEPT !.name[category] =
                               generate_cluster_name(imgs, clusters[i], i - 1)],
                 category)))

\* HierarchicalClustering.categorize: "CategorizationError" for every
\* exception, else the tree; clusters and groups keep what _cluster_images
\* returned and the cluster_groups it cut them from
clustering_categorize(imgs, cfg) ==
    LET built(clusters, r) ==
            IF r.raised
            THEN [raised |-> TRUE, exc |-> "CategorizationError", tree |-> EmptyTree,
                  clusters |-> <<>>, groups |-> <<>>]
            ELSE [raised |-> FALSE, exc |-> "", tree |-> r.s,
                  clusters |-> clusters.result, groups |-> clusters.groups]
        build(clusters) ==
            built(clusters,
                  IF clusters.raised THEN Raise(EmptyTree)
                  ELSE create_cluster_categories(EmptyTree, clusters.result, 1, imgs))
    IN  build(cluster_images(compute_distance_matrix(extract_features(imgs)), imgs, cfg))

\* ---- HybridCategorization, CategorizationService -------------------------

\* the number of categories from which the content tree is kept
EnoughCategories == 3

\* Category ids are uuid4: the id of a category of one tree is the id of no
\* category of another.  CatIds are the categories of the tree a run builds,
\* the ids an earlier run left in image.categories lie beyond CatIds.
of_earlier_tree(ids) == [i \in DOMAIN ids |-> ids[i] + 2 * NumPhotos]

\* the tree of a second run on the images the first run has been through:
\* image.categories holds what the first run appended, then what the second
\* appended
run_after(first, second) ==
    [second EXCEPT !.noted = [k \in DOMAIN @ |-> of_earlier_tree(first.noted[k]) \o @[k]]]

\* HybridCategorization.categorize with the >= of the test written as >
hybrid_categorize_above(imgs, cfg) ==
    LET choose(content, clustering) ==
            IF content.raised
            THEN [raised |-> TRUE, exc |-> "CategorizationError", tree |-> EmptyTree,
                  invoked |-> <<"content">>]
            ELSE IF Len(content.tree.categories) > EnoughCategories
            THEN [raised |-> FALSE, exc |-> "", tree |-> content.tree,
                  invoked |-> <<"content">>]
            ELSE IF clustering.raised
            THEN [raised |-> TRUE, exc |-> "CategorizationError", tree |-> EmptyTree,
                  invoked |-> <<"content", "clustering">>]
            ELSE [raised |-> FALSE, exc |-> "",
                  tree |-> run_after(content.tree, clustering.tree),
                  invoked |-> <<"content", "clustering">>]
    IN  choose(content_categorize(imgs, cfg), clustering_categorize(imgs, cfg))

\* HybridCategorization.categorize; invoked lists the algorithms it called
hybrid_categorize(imgs, cfg) ==
    LET choose(content, clustering) ==
            IF content.raised
            THEN [raised |-> TRUE, exc |-> "CategorizationError", tree |-> EmptyTree,
                  invoked |-> <<"content">>]
            ELSE IF Len(content.tree.categories) >= EnoughCategories
            THEN [raised |-> FALSE, exc |-> "", tree |-> content.tree,
                  invoked |-> <<"content">>]
            ELSE IF clustering.raised
            THEN [raised |-> TRUE, exc |-> "CategorizationError", tree |-> EmptyTree,
                  invoked |-> <<"content", "clustering">>]
            ELSE [raised |-> FALSE, exc |-> "",
                  tree |-> run_after(content.tree, clustering.tree),
                  invoked |-> <<"content", "clustering">>]
    IN  choose(content_categorize(imgs, cfg), clustering_categorize(imgs, cfg))

\* the algorithms a CategorizationService is built with; "failing" is the
\* stand-in of test_categorize_error whose categorize raises Exception
Algorithms == {"content", "clustering", "hybrid", "failing"}

\* self.algorithm.categorize(images)
algorithm_categorize(algorithm, imgs, cfg) ==
    LET outcome(r) == [raised |-> r.raised, exc |-> r.exc, tree |-> r.tree]
    IN  CASE algorithm = "content" -> outcome(content_categorize(imgs, cfg))
          [] algorithm = "clustering" -> outcome(clustering_categorize(imgs, cfg))
          [] algorithm = "hybrid" -> outcome(hybrid_categorize(imgs, cfg))
          [] algorithm = "failing" ->
                [raised |-> TRUE, exc |-> "Exception", tree |-> EmptyTree]

\* CategorizationService.categorize without the try
service_categorize_bare(algorithm, imgs, cfg) ==
    algorithm_categorize(algorithm, imgs, cfg)

\* CategorizationService.categorize: "except Exception" turns every exception
\* of the algorithm into CategorizationError
service_categorize(algorithm, imgs, cfg) ==
    LET r == algorithm_categorize(algorithm, imgs, cfg)
    IN  IF r.raised
        THEN [raised |-> TRUE, exc |-> "CategorizationError", tree |-> EmptyTree]
        ELSE r

\* ---- StateManager (state.py) ---------------------------------------------

ProcessingState == {"idle", "running", "paused", "canceling", "completed", "failed"}

StateChangeEvent == {"start", "pause", "resume", "cancel", "complete", "fail"}

\* StateManager._transitions with a pair more: PAUSE accepted when IDLE
transitions_with_idle_pause ==
    (<<"idle", "pause">> :> "paused") @@
    (<<"idle", "start">> :> "running") @@
    (<<"running", "pause">> :> "paused") @@
    (<<"running", "cancel">> :> "canceling") @@
    (<<"running", "complete">> :> "completed") @@
    (<<"running", "fail">> :> "failed") @@
    (<<"paused", "resume">> :> "running") @@
    (<<"paused", "cancel">> :> "canceling") @@
    (<<"canceling", "complete">> :> "completed") @@
    (<<"canceling", "fail">> :> "failed") @@
    (<<"completed", "start">> :> "running") @@
    (<<"failed", "start">> :> "running")

\* StateManager._transitions: (current_state, event) -> new_state
transitions ==
    (<<"idle", "start">> :> "running") @@
    (<<"running", "pause">> :> "paused") @@
    (<<"running", "cancel">> :> "canceling") @@
    (<<"running", "complete">> :> "completed") @@
    (<<"running", "fail">> :> "failed") @@
    (<<"paused", "resume">> :> "running") @@
    (<<"paused", "cancel">> :> "canceling") @@
    (<<"canceling", "complete">> :> "completed") @@
    (<<"canceling", "fail">> :> "failed") @@
    (<<"completed", "start">> :> "running") @@
    (<<"failed", "start">> :> "running")

\* the events sent from inside a callback: the pairs of the table with these
\* events form no cycle, so the calls do not nest without end
ReentrantEvents == {"pause", "cancel"}

\* the callables handed to the register methods: one that returns, one that
\* raises, and one that calls manager.transition(event) from inside the
\* callback (the RLock lets the thread that holds it in again)
Callbacks ==
    {[kind |-> "pass", event |-> "none"], [kind |-> "raise", event |-> "none"]}
        \cup {[kind |-> "transition", event |-> e] : e \in ReentrantEvents}

\* StateManager.__init__
NewManager == [state |-> "idle",
               state_change_callbacks |-> [s \in ProcessingState |-> <<>>],
               event_callbacks |-> [e \in StateChangeEvent |-> <<>>]]

\* an entry of the record of a transition call: the call, the assignment of
\* _state, a callback invoked (with the state it finds), the return
Entry(kind, depth, event, from, state, callback, key, value) ==
    [kind |-> kind, depth |-> depth, event |-> event, from |-> from, state |-> state,
     callback |-> callback, key |-> key, value |-> value]

NoCallback == [kind |-> "none", event |-> "none"]

\* StateManager.transition and StateManager._call_callbacks; m is the
\* manager, depth the number of transition calls on the stack.  The result
\* holds the manager afterwards, the value returned and the record.
RECURSIVE transition(_, _, _)
RECURSIVE call_callbacks(_, _, _, _, _, _)

\* _call_callbacks without the try: the loop ends at a callback that raises
call_callbacks_stops(m, callbacks, i, depth, event, key) ==
    IF i > Len(callbacks) THEN [m |-> m, log |-> <<>>]
    ELSE LET invoked == Entry("callback", depth, event, m.state, m.state,
                              callbacks[i], key, TRUE)
             rest(r) ==
                 LET after == call_callbacks(r.m, callbacks, i + 1, depth, event, key)
                 IN  [m |-> after.m, log |-> <<invoked>> \o r.log \o after.log]
         IN  IF callbacks[i].kind = "raise" THEN [m |-> m, log |-> <<invoked>>]
             ELSE rest(IF callbacks[i].kind = "transition"
                       THEN transition(m, callbacks[i].event, depth + 1)
                       ELSE [m |-> m, log |-> <<>>])

\* "for callback in callbacks: try: callback() except Exception: print(...)",
\* from the i-th callback on; key is the event or state the list is kept under
call_callbacks(m, callbacks, i, depth, event, key) ==
    IF i > Len(callbacks) THEN [m |-> m, log |-> <<>>]
    ELSE LET invoked == Entry("callback", depth, event, m.state, m.state,
                              callbacks[i], key, TRUE)
             rest(r) ==
                 LET after == call_callbacks(r.m, callbacks, i + 1, depth, event, key)
                 IN  [m |-> after.m, log |-> <<invoked>> \o r.log \o after.log]
         IN  rest(IF callbacks[i].kind = "transition"
                  THEN transition(m, callbacks[i].event, depth + 1)
                  ELSE [m |-> m, log |-> <<>>])

transition(m, event, depth) ==
    LET called == Entry("call", depth, event, m.state, m.state, NoCallback, "none", TRUE)
    IN  IF <<m.state, event>> \notin DOMAIN transitions
        THEN [m |-> m, result |-> FALSE,
              log |-> <<called,
                        Entry("return", depth, event, m.state, m.state,
                              NoCallback, "none", FALSE)>>]
        ELSE LET new_state == transitions[<<m.state, event>>]
                 assigned == Entry("set", depth, event, m.state, new_state,
                                   NoCallback, "none", TRUE)
                 returns(r) ==
                     [m |-> r.m, result |-> TRUE,
                      log |-> <<called, assigned>> \o r.log \o
                              <<Entry("return", depth, event, r.m.state, r.m.state,
                                      NoCallback, "none", TRUE)>>]
                 state_change(r) ==
                     LET after == call_callbacks(r.m, r.m.state_change_callbacks[new_state],
                                                 1, depth, event, new_state)
                     IN  [m |-> after.m, log |-> r.log \o after.log]
             IN  returns(state_change(
                     call_callbacks([m EXCEPT !.state = new_state],
                                    m.event_callbacks[event], 1, depth, event, event)))

\* register_state_change_callback
register_state_change_callback(m, state, callback) ==
    [m EXCEPT !.state_change_callbacks[state] = Append(@, callback)]

\* register_event_callback
register_event_callback(m, event, callback) ==
    [m EXCEPT !.event_callbacks[event] = Append(@, callback)]

\* ---- WorkerPool, TaskScheduler (parallel.py) -------------------------------

\* WorkerPool.__init__
NewPool(max_workers) ==
    [max_workers |-> max_workers, executor |-> "none", futures |-> <<>>, results |-> <<>>,
     canceled |-> FALSE, paused |-> FALSE]

\* executor.submit(wrapped_func, item): a future waiting in the queue of the
\* executor.  at says where its worker stands in wrapped_func; late and woken
\* keep what happened to it: func called with canceled set, and woken out of
\* the pause wait by cancel.
NewFuture(item) ==
    [item |-> item, state |-> "pending", at |-> "queue", yielded |-> FALSE,
     called |-> FALSE, late |-> FALSE, woken |-> FALSE]

\* the threads of a batch before it starts
NoThreads ==
    [main |-> "idle", i |-> 1, monitor |-> "none", caller |-> "idle", polled |-> FALSE]

\* the first lines of WorkerPool.map
map_reset(p) ==
    [p EXCEPT !.canceled = FALSE, !.paused = FALSE, !.futures = <<>>, !.results = <<>>]

\* "self.canceled = True" of WorkerPool.cancel
cancel_set(p) == [p EXCEPT !.canceled = TRUE]

\* pause_condition.notify_all(): every worker in wait() goes back to the test
\* of its while loop
notify_all(futures, by_cancel) ==
    [k \in DOMAIN futures |->
        IF futures[k].at = "waiting"
        THEN [futures[k] EXCEPT !.at = "pause", !.woken = @ \/ by_cancel]
        ELSE futures[k]]

\* "with self.pause_condition: self.paused = False; notify_all()" of cancel
cancel_wake(p) ==
    [p EXCEPT !.paused = FALSE, !.futures = notify_all(@, TRUE)]

\* "if self.executor: self.executor.shutdown(wait=False); for future in
\* self.futures: future.cancel()": a future still in the queue is cancelled,
\* one that runs or is finished stays as it is
cancel_futures(p) ==
    IF p.executor = "none" THEN p
    ELSE [p EXCEPT !.executor = "shutdown",
                   !.futures = [k \in DOMAIN @ |->
                                   IF @[k].state = "pending"
                                   THEN [@[k] EXCEPT !.state = "cancelled"]
                                   ELSE @[k]]]

\* WorkerPool.pause
pause(p) == [p EXCEPT !.paused = TRUE]

\* WorkerPool.resume
resume(p) == [p EXCEPT !.paused = FALSE, !.futures = notify_all(@, FALSE)]

\* the futures a worker thread of the executor is busy with
busy(p) == {k \in DOMAIN p.futures : p.futures[k].state = "running"}

\* the future a free worker thread takes from the queue: the oldest one that
\* was not cancelled
next_in_queue(p) ==
    {k \in DOMAIN p.futures :
        /\ p.futures[k].state = "pending"
        /\ \A j \in DOMAIN p.futures : j < k => p.futures[j].state # "pending"}

\* ---- ApplicationCore (core.py) ----------------------------------------------

\* the stages of process_images that end with "if self.canceled"
Pipeline == <<"scanning", "analyzing", "categorizing", "organizing">>

\* ApplicationCore.__init__; at and n say where process_images stands,
\* started lists the stages begun, messages what was logged; requested and
\* overrun keep the history of the flag: set before the last test of it, and
\* a test of it passed although it had been set
NewCore ==
    [canceled |-> FALSE, paused |-> FALSE, at |-> "idle", n |-> 1, started |-> <<>>,
     messages |-> <<>>, requested |-> FALSE, overrun |-> FALSE]

\* "self.canceled = True" of ApplicationCore.cancel, or the assignment made
\* directly as in test_process_images_canceled
cancel(c) ==
    [c EXCEPT !.canceled = TRUE,
              !.requested = @ \/ c.at \in {"idle", "stage", "check"}]

\* "self.paused = True" of ApplicationCore.pause and "self.paused = False" of
\* ApplicationCore.resume
set_paused(c, value) == [c EXCEPT !.paused = value]

\* process_images from its first line to the start of the scan; validation
\* of the paths may raise
process_images_enter(c, ok) ==
    IF ok
    THEN [c EXCEPT !.canceled = FALSE, !.paused = FALSE, !.at = "stage", !.n = 1,
                   !.started = <<"initializing">>]
    ELSE [c EXCEPT !.canceled = FALSE, !.paused = FALSE, !.at = "returned",
                   !.messages = Append(@, "Error during processing")]

\* a stage of the pipeline: start_stage and the work of the stage, which ends
\* normally, raises, or (the scan) finds no image
run_stage(c, outcome) ==
    CASE outcome = "ok" ->
            [c EXCEPT !.at = "check", !.started = Append(@, Pipeline[c.n])]
      [] outcome = "raise" ->
            [c EXCEPT !.at = "returned", !.started = Append(@, Pipeline[c.n]),
                      !.messages = Append(@, "Error during processing")]
      [] outcome = "empty" ->
            [c EXCEPT !.at = "returned", !.started = Append(@, Pipeline[c.n]),
                      !.messages = Append(@, "No image files found in input paths")]

\* "if self.canceled: self._log_info("Operation canceled"); return False, None"
check_canceled(c) ==
    IF c.canceled
    THEN [c EXCEPT !.at = "returned", !.messages = Append(@, "Operation canceled")]
    ELSE [c EXCEPT !.at = IF c.n = Len(Pipeline) THEN "report" ELSE "stage",
                   !.n = @ + 1, !.overrun = @ \/ c.requested]

\* the report is generated and exported, and process_images returns
\* (True, report), or (False, None) when that raises
report(c, ok) ==
    [c EXCEPT !.at = "returned", !.started = Append(@, "reporting"),
              !.messages = Append(@, IF ok THEN "Processing completed successfully"
                                     ELSE "Error during processing")]

\* ---- state machine -----------------------------------------------------

NoCall == [op |-> "none", a |-> 0, b |-> 0, raised |-> FALSE,
           log |-> <<>>, result |-> <<>>]

\* the defaults of ContentBasedCategorization.__init__ and
\* HierarchicalClustering.__init__
Defaults == [min_category_size |-> 3, min_tag_frequency |-> 2,
             min_cluster_size |-> 3, max_clusters |-> 20]

\* the objects of the other modules as constructed, and left alone by the
\* calls on categories, trees and algorithms
Unbuilt ==
    /\ manager = NewManager
    /\ pool = NewPool(1)
    /\ threads = NoThreads
    /\ core = NewCore

Elsewhere == UNCHANGED <<manager, pool, threads, core>>

\* following parent ids n times from c ends at an object without parent
RECURSIVE EndsWithin(_, _, _)
EndsWithin(pf, c, n) ==
    IF pf[c] = None THEN TRUE
    ELSE IF n = 0 THEN FALSE
    ELSE EndsWithin(pf, pf[c], n - 1)

\* The Category objects of a run, as constructed: Category(name) or
\* Category(name, parent_id = p.id) for an object p constructed before (ids
\* are fresh uuids, so a constructor argument cannot close a cycle); no
\* children, no images; the tree is empty.
Init ==
    /\ parent_id \in {pf \in [Ids -> Ids \cup {None}] :
                        \A c \in Ids : EndsWithin(pf, c, NumIds)}
    /\ child_ids = [c \in Ids |-> {}]
    /\ image_ids = [c \in Ids |-> {}]
    /\ categories = <<>>
    /\ root_categories = {}
    /\ nops = 0
    /\ last = NoCall
    /\ name = [c \in Ids |-> <<>>]
    /\ images = <<>>
    /\ settings = Defaults
    /\ pc = "idle"
    /\ Unbuilt

\* the heap after a call
Becomes(s) ==
    /\ parent_id' = s.parent_id
    /\ child_ids' = s.child_ids
    /\ image_ids' = s.image_ids
    /\ categories' = s.categories
    /\ root_categories' = s.root_categories

\* bookkeeping of a call; a call of Category or CategoryTree changes no name
\* and belongs to no run of categorize
Called(op, a, b, r, log, result) ==
    /\ nops' = nops + 1
    /\ last' = [op |-> op, a |-> a, b |-> b, raised |-> r,
                log |-> log, result |-> result]
    /\ UNCHANGED <<name, images, settings, pc>>
    /\ Elsewhere

\* parent.add_child(child) on any two objects
AddChild(p, c) ==
    /\ nops < MaxOps
    /\ LET r == add_child(Heap, p, c)
       IN  /\ Becomes(r.s)
           /\ Called("add_child", p, c, r.raised, <<>>, <<>>)

AddCategory(c) ==
    /\ nops < MaxOps
    /\ LET r == add_category(Heap, c)
       IN  /\ Becomes(r.s)
           /\ Called("add_category", c, 0, r.raised, <<>>, <<>>)

RemoveCategory(c) ==
    /\ nops < MaxOps
    /\ Becomes(remove_category(Heap, c))
    /\ Called("remove_category", c, 0, FALSE, <<>>, <<>>)

AddImageToCategory(i, c) ==
    /\ nops < MaxOps
    /\ LET r == add_image_to_category(Heap, i, c)
       IN  /\ Becomes(r.s)
           /\ Called("add_image_to_category", i, c, r.raised, <<>>, <<>>)

RemoveImageFromCategory(i, c) ==
    /\ nops < MaxOps
    /\ Becomes(remove_image_from_category(Heap, i, c))
    /\ Called("remove_image_from_category", i, c, FALSE, <<>>, <<>>)

MergeCategories(src, tgt) ==
    /\ nops < MaxOps
    /\ \E perm \in OrdersOf(child_ids[src]) :
         LET r == merge_categories(Heap, src, tgt, perm)
         IN  /\ Becomes(r.s)
             /\ Called("merge_categories", src, tgt, r.raised,
                       ListOf(child_ids[src] \cap Keys(categories), perm), <<>>)

OptimizeHierarchy(m) ==
    /\ nops < MaxOps
    /\ \E perm \in OrdersOf(UNION {child_ids[c] : c \in Keys(small_categories(Heap, m))}) :
         LET r == optimize_hierarchy(Heap, m, perm)
         IN  /\ Becomes(r.s)
             /\ Called("optimize_hierarchy", m, 0, r.raised, r.log, <<>>)

GetCategoryHierarchy ==
    /\ nops < MaxOps
    /\ \E perm \in HashOrders :
         LET r == get_category_hierarchy(Heap, perm)
         IN  Called("get_category_hierarchy", 0, 0, r.raised, <<>>, r.result)
    /\ UNCHANGED <<parent_id, child_ids, image_ids, categories, root_categories>>

\* category.add_image(image_id) on any object; log keeps the image_ids the
\* object had before the call
AddImage(c, i) ==
    /\ nops < MaxOps
    /\ Becomes(add_image(Heap, c, i))
    /\ Called("add_image", c, i, FALSE, <<image_ids[c]>>, <<>>)

\* category.remove_image(image_id) on any object
RemoveImage(c, i) ==
    /\ nops < MaxOps
    /\ Becomes(remove_image(Heap, c, i))
    /\ Called("remove_image", c, i, FALSE, <<image_ids[c]>>, <<>>)

GetCategoryPath(c) ==
    /\ nops < MaxOps
    /\ LET r == get_category_path(Heap, c)
       IN  Called("get_category_path", c, 0, r.raised, <<>>, r.result)
    /\ UNCHANGED <<parent_id, child_ids, image_ids, categories, root_categories>>

\* the depth returned is recorded as a list of one number, nothing when the
\* call raised
GetCategoryDepth(c) ==
    /\ nops < MaxOps
    /\ LET r == get_category_depth(Heap, c)
       IN  Called("get_category_depth", c, 0, r.raised, <<>>,
                  IF r.raised THEN <<>> ELSE <<r.result>>)
    /\ UNCHANGED <<parent_id, child_ids, image_ids, categories, root_categories>>

Next ==
    \/ \E p \in Ids, c \in Ids : AddChild(p, c)
    \/ \E c \in Ids : AddCategory(c)
    \/ \E c \in Ids : RemoveCategory(c)
    \/ \E i \in Images, c \in Ids : AddImageToCategory(i, c)
    \/ \E i \in Images, c \in Ids : RemoveImageFromCategory(i, c)
    \/ \E src \in Ids, tgt \in Ids : MergeCategories(src, tgt)
    \/ \E m \in 1..MaxMinImages : OptimizeHierarchy(m)
    \/ GetCategoryHierarchy
    \/ \E c \in Ids : GetCategoryPath(c)
    \/ \E c \in Ids : GetCategoryDepth(c)
    \/ \E c \in Ids, i \in Images : AddImage(c, i)
    \/ \E c \in Ids, i \in Images : RemoveImage(c, i)

Spec == Init /\ [][Next]_vars

\* building only: add_category and add_child
NextAdd ==
    \/ \E p \in Ids, c \in Ids : AddChild(p, c)
    \/ \E c \in Ids : AddCategory(c)

SpecAdd == Init /\ [][NextAdd]_vars

\* the calls of the tree that change its shape, without Category.add_child
NextArrive ==
    \/ \E c \in Ids : AddCategory(c)
    \/ \E c \in Ids : RemoveCategory(c)
    \/ \E src \in Ids, tgt \in Ids : MergeCategories(src, tgt)

SpecArrive == Init /\ [][NextArrive]_vars

\* every call that changes the shape, and the traversal
NextShape ==
    \/ \E p \in Ids, c \in Ids : AddChild(p, c)
    \/ \E c \in Ids : AddCategory(c)
    \/ \E c \in Ids : RemoveCategory(c)
    \/ \E src \in Ids, tgt \in Ids : MergeCategories(src, tgt)
    \/ \E m \in 1..MaxMinImages : OptimizeHierarchy(m)
    \/ GetCategoryHierarchy

SpecShape == Init /\ [][NextShape]_vars

\* Category(name) only: every object starts without parent
InitBare ==
    /\ Init
    /\ parent_id = [c \in Ids |-> None]

\* parent.add_child(child) on two categories the tree holds, the way
\* _create_subcategories attaches a subcategory
AddChildInTree(p, c) ==
    /\ p \in Keys(categories)
    /\ c \in Keys(categories)
    /\ AddChild(p, c)

\* bare categories, attached with add_child once they are in the tree
NextSub ==
    \/ \E p \in Ids, c \in Ids : AddChildInTree(p, c)
    \/ \E c \in Ids : AddCategory(c)
    \/ \E c \in Ids : RemoveCategory(c)
    \/ \E src \in Ids, tgt \in Ids : MergeCategories(src, tgt)
    \/ \E m \in 1..MaxMinImages : OptimizeHierarchy(m)

SpecSub == InitBare /\ [][NextSub]_vars

\* the calls of the tree, images included
NextTree ==
    \/ \E c \in Ids : AddCategory(c)
    \/ \E c \in Ids : RemoveCategory(c)
    \/ \E i \in Images, c \in Ids : AddImageToCategory(i, c)
    \/ \E src \in Ids, tgt \in Ids : MergeCategories(src, tgt)
    \/ \E m \in 1..MaxMinImages : OptimizeHierarchy(m)

SpecTree == Init /\ [][NextTree]_vars

\* one Category object more than elsewhere: a chain of four (a category, its
\* child, its grandchild and its great-grandchild) needs it
DeepIds == 1..(NumIds + 1)

\* the objects as constructed, as in Init, over the larger set of objects
InitDeep ==
    /\ parent_id \in {pf \in [DeepIds -> DeepIds \cup {None}] :
                        \A c \in DeepIds : EndsWithin(pf, c, NumIds + 1)}
    /\ child_ids = [c \in DeepIds |-> {}]
    /\ image_ids = [c \in DeepIds |-> {}]
    /\ categories = <<>>
    /\ root_categories = {}
    /\ nops = 0
    /\ last = NoCall
    /\ name = [c \in Ids |-> <<>>]
    /\ images = <<>>
    /\ settings = Defaults
    /\ pc = "idle"
    /\ Unbuilt

\* trees built with add_category alone, and merges in them
NextDeep ==
    \/ \E c \in DeepIds : AddCategory(c)
    \/ \E src \in DeepIds, tgt \in DeepIds : MergeCategories(src, tgt)

SpecDeep == InitDeep /\ [][NextDeep]_vars

\* building with add_category and add_child, and the two path queries
NextPath ==
    \/ \E p \in Ids, c \in Ids : AddChild(p, c)
    \/ \E c \in Ids : AddCategory(c)
    \/ \E c \in Ids : GetCategoryPath(c)
    \/ \E c \in Ids : GetCategoryDepth(c)

SpecPath == Init /\ [][NextPath]_vars

\* the image membership calls of Category, on objects linked by add_child
NextImages ==
    \/ \E p \in Ids, c \in Ids : AddChild(p, c)
    \/ \E c \in Ids, i \in Images : AddImage(c, i)
    \/ \E c \in Ids, i \in Images : RemoveImage(c, i)

SpecImages == Init /\ [][NextImages]_vars

\* ---- runs of categorize -------------------------------------------------

\* image k of a list lies in a directory of its own; its file name is its
\* own (k) or the one the first image has too (1)
NameChoices == {nm \in [1..NumPhotos -> 1..NumPhotos] : \A k \in 1..NumPhotos : nm[k] \in {1, k}}

\* file names all different
OwnNames == {[k \in 1..NumPhotos |-> k]}

\* the lists of NumPhotos images with file names from nms, tag lists from tls
\* and features from fs
Batches(nms, tls, fs) ==
    {[k \in 1..NumPhotos |-> [path |-> [parent |-> k, name |-> nm[k]],
                              content_tags |-> tg[k],
                              features |-> ft[k],
                              categories |-> <<>>]] :
        nm \in nms, tg \in [1..NumPhotos -> tls], ft \in [1..NumPhotos -> fs]}

\* the constructor arguments tried
SettingsTried ==
    {[min_category_size |-> m, min_tag_frequency |-> f,
      min_cluster_size |-> c, max_clusters |-> x] :
        m \in 1..MaxSetting, f \in 1..MaxSetting, c \in 1..MaxSetting, x \in 1..MaxSetting}

\* before categorize is called: no tree, no category
InitRun ==
    /\ parent_id = EmptyTree.parent_id
    /\ child_ids = EmptyTree.child_ids
    /\ image_ids = EmptyTree.image_ids
    /\ categories = EmptyTree.categories
    /\ root_categories = EmptyTree.root_categories
    /\ name = EmptyTree.name
    /\ nops = 0
    /\ last = NoCall
    /\ pc = "idle"
    /\ Unbuilt

\* the tree, the names and the lists image.categories after a step
BecomesNamed(s) ==
    /\ Becomes(s)
    /\ name' = s.name
    /\ images' = [k \in DOMAIN images |-> [images[k] EXCEPT !.categories = s.noted[k]]]

\* bookkeeping of a step of a run
Ran(op, r, log, result, next) ==
    /\ nops' = nops + 1
    /\ last' = [op |-> op, a |-> 0, b |-> 0, raised |-> r, log |-> log, result |-> result]
    /\ pc' = IF r THEN "raised" ELSE next
    /\ UNCHANGED settings
    /\ Elsewhere

\* ContentBasedCategorization.categorize up to the return of
\* _create_categories; log keeps tag_groups
CreateCategories ==
    /\ pc = "idle"
    /\ LET tag_groups == tag_groups_of(images, settings)
           r == create_categories(EmptyTree, tag_groups, images, settings)
       IN  /\ BecomesNamed(r.s)
           /\ Ran("_create_categories", r.raised, tag_groups, <<>>, "categories")

\* the call of _create_subcategories that follows
CreateSubcategories ==
    /\ pc = "categories"
    /\ LET tag_groups == tag_groups_of(images, settings)
           r == create_subcategories(NamedHeap, tag_groups, images, settings)
       IN  /\ BecomesNamed(r.s)
           /\ Ran("_create_subcategories", r.raised, tag_groups, <<>>, "subcategories")

\* optimize_hierarchy(min_category_size) and the return of the tree
OptimizeAndReturn ==
    /\ pc = "subcategories"
    /\ LET r == optimize_hierarchy(NamedHeap, settings.min_category_size, <<>>)
       IN  /\ BecomesNamed(r.s)
           /\ Ran("categorize", r.raised, r.log, <<>>, "done")

\* content categorization reads the tags and the file names only
InitContent ==
    /\ InitRun
    /\ images \in Batches(NameChoices, TagLists, {1})
    /\ settings \in {st \in SettingsTried :
                        st.min_cluster_size = 1 /\ st.max_clusters = 1}

NextContent ==
    \/ CreateCategories
    \/ CreateSubcategories
    \/ OptimizeAndReturn

SpecContent == InitContent /\ [][NextContent]_vars

\* HierarchicalClustering(...).categorize(images); log keeps cluster_groups,
\* result the clusters _cluster_images returned.  A call that raises returns
\* no tree.
ClusteringCategorize ==
    /\ pc = "idle"
    /\ LET r == clustering_categorize(images, settings)
       IN  /\ IF r.raised
              THEN UNCHANGED <<parent_id, child_ids, image_ids, categories,
                               root_categories, name, images>>
              ELSE BecomesNamed(r.tree)
           /\ Ran("clustering.categorize", r.raised, r.groups, r.clusters, "done")

\* clustering reads the features, the file names and, for the names of the
\* clusters, the tags
InitClustering ==
    /\ InitRun
    /\ images \in Batches(NameChoices, {tl \in TagLists : Len(tl) <= 1},
                         Features \cup {NoFeatures})
    /\ settings \in {st \in SettingsTried :
                        st.min_category_size = 1 /\ st.min_tag_frequency = 1}

NextClustering == ClusteringCategorize

SpecClustering == InitClustering /\ [][NextClustering]_vars

\* HybridCategorization(...).categorize(images); log lists the algorithms
\* called
HybridCategorize ==
    /\ pc = "idle"
    /\ LET r == hybrid_categorize(images, settings)
       IN  /\ IF r.raised
              THEN UNCHANGED <<parent_id, child_ids, image_ids, categories,
                               root_categories, name, images>>
              ELSE BecomesNamed(r.tree)
           /\ Ran("hybrid.categorize", r.raised, r.invoked, <<>>, "done")

\* the hybrid algorithm reads tags and features; file names all different
InitHybrid ==
    /\ InitRun
    /\ images \in Batches(OwnNames, TagLists, Features \cup {NoFeatures})
    /\ settings \in {st \in SettingsTried :
                        /\ st.min_tag_frequency = 1
                        /\ st.min_cluster_size = 1
                        /\ st.max_clusters = MaxSetting}

NextHybrid == HybridCategorize

SpecHybrid == InitHybrid /\ [][NextHybrid]_vars

\* CategorizationService(algorithm).categorize(images); log names the
\* algorithm, result the exception that reaches the caller
ServiceCategorize(algorithm) ==
    /\ pc = "idle"
    /\ LET r == service_categorize(algorithm, images, settings)
       IN  /\ IF r.raised
              THEN UNCHANGED <<parent_id, child_ids, image_ids, categories,
                               root_categories, name, images>>
              ELSE BecomesNamed(r.tree)
           /\ Ran("service.categorize", r.raised, <<algorithm>>,
                  IF r.raised THEN <<r.exc>> ELSE <<>>, "done")

InitService ==
    /\ InitRun
    /\ images \in Batches(OwnNames, {tl \in TagLists : Len(tl) <= 1},
                         Features \cup {NoFeatures})
    /\ settings \in {st \in SettingsTried :
                        /\ st.min_tag_frequency = 1
                        /\ st.min_cluster_size = 1
                        /\ st.max_clusters = MaxSetting}

NextService == \E algorithm \in Algorithms : ServiceCategorize(algorithm)

SpecService == InitService /\ [][NextService]_vars

\* ---- StateManager: calls ---------------------------------------------------

\* the tree, the images and the algorithms are not part of these runs
NoTree ==
    /\ parent_id = [c \in Ids |-> None]
    /\ child_ids = [c \in Ids |-> {}]
    /\ image_ids = [c \in Ids |-> {}]
    /\ categories = <<>>
    /\ root_categories = {}
    /\ nops = 0
    /\ last = NoCall
    /\ name = [c \in Ids |-> <<>>]
    /\ images = <<>>
    /\ settings = Defaults
    /\ pc = "idle"

TreeAside ==
    UNCHANGED <<parent_id, child_ids, image_ids, categories, root_categories, nops,
                name, images, settings, pc>>

\* the number of callbacks registered so far, over both dicts
registrations(m) ==
    Cardinality({<<s, i>> \in ProcessingState \X (1..MaxCallbacks) :
                    i <= Len(m.state_change_callbacks[s])})
        + Cardinality({<<e, i>> \in StateChangeEvent \X (1..MaxCallbacks) :
                          i <= Len(m.event_callbacks[e])})

\* manager.register_state_change_callback(state, callback)
RegisterStateChangeCallback(state, callback) ==
    /\ registrations(manager) < MaxCallbacks
    /\ manager' = register_state_change_callback(manager, state, callback)
    /\ UNCHANGED <<pool, threads, core>>
    /\ last' = [op |-> "register_state_change_callback", a |-> state, b |-> callback,
                raised |-> FALSE, log |-> <<>>, result |-> <<>>]
    /\ TreeAside

\* manager.register_event_callback(event, callback)
RegisterEventCallback(event, callback) ==
    /\ registrations(manager) < MaxCallbacks
    /\ manager' = register_event_callback(manager, event, callback)
    /\ UNCHANGED <<pool, threads, core>>
    /\ last' = [op |-> "register_event_callback", a |-> event, b |-> callback,
                raised |-> FALSE, log |-> <<>>, result |-> <<>>]
    /\ TreeAside

\* manager.transition(event), called from outside of the callbacks; b keeps
\* the state the call found
Transition(event) ==
    /\ LET r == transition(manager, event, 1)
       IN  /\ manager' = r.m
           /\ last' = [op |-> "transition", a |-> event, b |-> manager.state,
                       raised |-> FALSE, log |-> r.log, result |-> <<r.result>>]
    /\ UNCHANGED <<pool, threads, core>>
    /\ TreeAside

InitState ==
    /\ NoTree
    /\ manager = NewManager
    /\ pool = NewPool(1)
    /\ threads = NoThreads
    /\ core = NewCore

NextState ==
    \/ \E state \in ProcessingState, callback \in Callbacks :
           RegisterStateChangeCallback(state, callback)
    \/ \E event \in StateChangeEvent, callback \in Callbacks :
           RegisterEventCallback(event, callback)
    \/ \E event \in StateChangeEvent : Transition(event)

SpecState == InitState /\ [][NextState]_vars

\* ---- WorkerPool, TaskScheduler: the threads of a batch ---------------------

\* a step of a thread of the batch: the tree, the algorithms and the
\* StateManager are not touched
BatchAside ==
    /\ TreeAside
    /\ UNCHANGED <<manager, core>>

Quiet == UNCHANGED last

\* TaskScheduler.process_batch up to "return worker_pool.map(...)": the pool
\* is created and the monitor thread started
StartBatch ==
    /\ threads.main = "idle"
    /\ threads' = [threads EXCEPT !.main = "map", !.monitor = "loop"]
    /\ UNCHANGED pool
    /\ Quiet /\ BatchAside

\* WorkerPool.map: "self.canceled = False; self.paused = False; ..."
MapReset ==
    /\ threads.main = "map"
    /\ pool' = map_reset(pool)
    /\ threads' = [threads EXCEPT !.main = "open"]
    /\ Quiet /\ BatchAside

\* "with ThreadPoolExecutor(...) as executor: self.executor = executor"
OpenExecutor ==
    /\ threads.main = "open"
    /\ pool' = [pool EXCEPT !.executor = "open"]
    /\ threads' = [threads EXCEPT !.main = "check", !.i = 1]
    /\ Quiet /\ BatchAside

\* "for item in items: if self.canceled: break"
SubmitCheck ==
    /\ threads.main = "check"
    /\ threads' = [threads EXCEPT !.main = IF threads.i > NumItems \/ pool.canceled
                                          THEN "collect" ELSE "submit"]
    /\ UNCHANGED pool
    /\ Quiet /\ BatchAside

\* "future = executor.submit(wrapped_func, item); self.futures.append(future)";
\* submit raises RuntimeError once the executor has been shut down
Submit ==
    /\ threads.main = "submit"
    /\ IF pool.executor = "shutdown"
       THEN /\ threads' = [threads EXCEPT !.main = "unwind"]
            /\ UNCHANGED pool
       ELSE /\ pool' = [pool EXCEPT !.futures = Append(@, NewFuture(threads.i))]
            /\ threads' = [threads EXCEPT !.main = "check", !.i = @ + 1]
    /\ Quiet /\ BatchAside

\* "for i, future in enumerate(as_completed(self.futures)): if self.canceled:
\* break; result = future.result(); ...": k is the future as_completed hands
\* out, one that is finished or cancelled; result() of a cancelled future
\* raises CancelledError
Collect(k) ==
    /\ threads.main = "collect"
    /\ k \in DOMAIN pool.futures
    /\ ~pool.futures[k].yielded
    /\ pool.futures[k].state \in {"finished", "cancelled"}
    /\ IF pool.canceled
       THEN /\ threads' = [threads EXCEPT !.main = "exit"]
            /\ UNCHANGED pool
       ELSE IF pool.futures[k].state = "cancelled"
       THEN /\ threads' = [threads EXCEPT !.main = "unwind"]
            /\ UNCHANGED pool
       ELSE /\ pool' = [pool EXCEPT !.futures[k].yielded = TRUE,
                                    !.results = IF pool.futures[k].called
                                                THEN Append(@, pool.futures[k].item)
                                                ELSE @]
            /\ UNCHANGED threads
    /\ Quiet /\ BatchAside

\* as_completed has handed out every future: the loop ends
CollectEnd ==
    /\ threads.main = "collect"
    /\ \A k \in DOMAIN pool.futures : pool.futures[k].yielded
    /\ threads' = [threads EXCEPT !.main = "exit"]
    /\ UNCHANGED pool
    /\ Quiet /\ BatchAside

\* the end of the with block, executor.shutdown(wait=True), waits for the
\* worker threads, which empty the queue first; then map and process_batch
\* return self.results, or the exception goes on to the caller.  log keeps
\* whether cancel_check had returned True, result the value of pool.canceled.
ExitExecutor ==
    /\ threads.main \in {"exit", "unwind"}
    /\ \A k \in DOMAIN pool.futures : pool.futures[k].state \in {"finished", "cancelled"}
    /\ pool' = [pool EXCEPT !.executor = "shutdown"]
    /\ threads' = [threads EXCEPT !.main = IF threads.main = "exit"
                                          THEN "returned" ELSE "raised"]
    /\ last' = [op |-> "process_batch", a |-> 0, b |-> 0,
                raised |-> threads.main = "unwind",
                log |-> <<threads.polled>>, result |-> <<pool.canceled>>]
    /\ BatchAside

\* a free worker thread of the executor takes future k from the queue and
\* enters wrapped_func
Take(k) ==
    /\ k \in next_in_queue(pool)
    /\ Cardinality(busy(pool)) < pool.max_workers
    /\ pool' = [pool EXCEPT !.futures[k].state = "running", !.futures[k].at = "check"]
    /\ UNCHANGED threads
    /\ Quiet /\ BatchAside

\* wrapped_func: "if self.canceled: return None"
WorkerCheck(k) ==
    /\ k \in DOMAIN pool.futures
    /\ pool.futures[k].at = "check"
    /\ pool' = IF pool.canceled
               THEN [pool EXCEPT !.futures[k].state = "finished", !.futures[k].at = "done"]
               ELSE [pool EXCEPT !.futures[k].at = "pause"]
    /\ UNCHANGED threads
    /\ Quiet /\ BatchAside

\* wrapped_func: "with self.pause_condition: while self.paused and not
\* self.canceled: self.pause_condition.wait()", one test of the loop
WorkerPause(k) ==
    /\ k \in DOMAIN pool.futures
    /\ pool.futures[k].at = "pause"
    /\ pool' = IF pool.paused /\ ~pool.canceled
               THEN [pool EXCEPT !.futures[k].at = "waiting"]
               ELSE [pool EXCEPT !.futures[k].at = "func"]
    /\ UNCHANGED threads
    /\ Quiet /\ BatchAside

\* wrapped_func: "return func(item)"
WorkerFunc(k) ==
    /\ k \in DOMAIN pool.futures
    /\ pool.futures[k].at = "func"
    /\ pool' = [pool EXCEPT !.futures[k].state = "finished", !.futures[k].at = "done",
                            !.futures[k].called = TRUE,
                            !.futures[k].late = pool.canceled]
    /\ UNCHANGED threads
    /\ Quiet /\ BatchAside

\* monitor_thread: "while not worker_pool.canceled"
MonitorLoop ==
    /\ threads.monitor = "loop"
    /\ threads' = [threads EXCEPT !.monitor = IF pool.canceled THEN "exited" ELSE "poll"]
    /\ UNCHANGED pool
    /\ Quiet /\ BatchAside

\* monitor_thread: "if self.cancel_check and self.cancel_check():
\* worker_pool.cancel(); break", else time.sleep(0.1) and the next round
MonitorPoll(answer) ==
    /\ threads.monitor = "poll"
    /\ threads' = IF answer
                  THEN [threads EXCEPT !.monitor = "cancel", !.polled = TRUE]
                  ELSE [threads EXCEPT !.monitor = "loop"]
    /\ UNCHANGED pool
    /\ Quiet /\ BatchAside

\* worker_pool.cancel() in the monitor thread, statement by statement
MonitorCancelSet ==
    /\ threads.monitor = "cancel"
    /\ pool' = cancel_set(pool)
    /\ threads' = [threads EXCEPT !.monitor = "wake"]
    /\ Quiet /\ BatchAside

MonitorCancelWake ==
    /\ threads.monitor = "wake"
    /\ pool' = cancel_wake(pool)
    /\ threads' = [threads EXCEPT !.monitor = "futures"]
    /\ Quiet /\ BatchAside

MonitorCancelFutures ==
    /\ threads.monitor = "futures"
    /\ pool' = cancel_futures(pool)
    /\ threads' = [threads EXCEPT !.monitor = "exited"]
    /\ Quiet /\ BatchAside

\* pool.pause() called by another thread
CallPause ==
    /\ threads.caller = "idle"
    /\ pool' = pause(pool)
    /\ UNCHANGED threads
    /\ Quiet /\ BatchAside

\* pool.resume() called by another thread
CallResume ==
    /\ threads.caller = "idle"
    /\ pool' = resume(pool)
    /\ UNCHANGED threads
    /\ Quiet /\ BatchAside

\* pool.cancel() called by another thread, statement by statement
CallCancelSet ==
    /\ threads.caller = "idle"
    /\ pool' = cancel_set(pool)
    /\ threads' = [threads EXCEPT !.caller = "wake"]
    /\ Quiet /\ BatchAside

CallCancelWake ==
    /\ threads.caller = "wake"
    /\ pool' = cancel_wake(pool)
    /\ threads' = [threads EXCEPT !.caller = "futures"]
    /\ Quiet /\ BatchAside

CallCancelFutures ==
    /\ threads.caller = "futures"
    /\ pool' = cancel_futures(pool)
    /\ threads' = [threads EXCEPT !.caller = "idle"]
    /\ Quiet /\ BatchAside

\* the worker threads and the thread that runs map
NextMap ==
    \/ MapReset
    \/ OpenExecutor
    \/ SubmitCheck
    \/ Submit
    \/ \E k \in 1..NumItems : Collect(k)
    \/ CollectEnd
    \/ ExitExecutor
    \/ \E k \in 1..NumItems : Take(k)
    \/ \E k \in 1..NumItems : WorkerCheck(k)
    \/ \E k \in 1..NumItems : WorkerPause(k)
    \/ \E k \in 1..NumItems : WorkerFunc(k)

\* TaskScheduler(max_workers, cancel_check = ...).process_batch(name, func,
\* items) for a name not used before, with a cancel_check that may return
\* True at any poll
InitBatch ==
    /\ NoTree
    /\ manager = NewManager
    /\ pool \in {NewPool(w) : w \in 1..MaxWorkers}
    /\ core = NewCore
    /\ threads = NoThreads

NextBatch ==
    \/ StartBatch
    \/ NextMap
    \/ MonitorLoop
    \/ \E answer \in BOOLEAN : MonitorPoll(answer)
    \/ MonitorCancelSet
    \/ MonitorCancelWake
    \/ MonitorCancelFutures

SpecBatch == InitBatch /\ [][NextBatch]_vars

\* WorkerPool(max_workers).map(func, items) in one thread while another
\* thread calls pause, resume and cancel on the pool
InitPool ==
    /\ NoTree
    /\ manager = NewManager
    /\ pool \in {NewPool(w) : w \in 1..MaxWorkers}
    /\ core = NewCore
    /\ threads = [NoThreads EXCEPT !.main = "map"]

NextPool ==
    \/ NextMap
    \/ CallPause
    \/ CallResume
    \/ CallCancelSet
    \/ CallCancelWake
    \/ CallCancelFutures

SpecPool == InitPool /\ [][NextPool]_vars

\* ---- ApplicationCore: process_images and cancel ----------------------------

CoreAside ==
    /\ TreeAside
    /\ UNCHANGED <<manager, pool, threads>>

\* the call that has returned: result is (success, report) with None for no
\* report, log the messages
Returned(c) ==
    IF c.at = "returned"
    THEN last' = [op |-> "process_images", a |-> 0, b |-> 0, raised |-> FALSE,
                  log |-> c.messages,
                  result |-> IF c.messages[Len(c.messages)] =
                                    "Processing completed successfully"
                             THEN <<TRUE, "report">> ELSE <<FALSE, None>>]
    ELSE UNCHANGED last

\* core.cancel() or "core.canceled = True", from any thread at any time
Cancel ==
    /\ core' = cancel(core)
    /\ UNCHANGED last
    /\ CoreAside

\* core.pause() and core.resume(), from any thread at any time
PauseResume(value) ==
    /\ core' = set_paused(core, value)
    /\ UNCHANGED last
    /\ CoreAside

\* core.process_images(input_paths, output_path, options) is entered
ProcessImages(ok) ==
    /\ core.at = "idle"
    /\ core' = process_images_enter(core, ok)
    /\ Returned(core')
    /\ CoreAside

RunStage(outcome) ==
    /\ core.at = "stage"
    /\ outcome = "empty" => core.n = 1
    /\ core' = run_stage(core, outcome)
    /\ Returned(core')
    /\ CoreAside

CheckCanceled ==
    /\ core.at = "check"
    /\ core' = check_canceled(core)
    /\ Returned(core')
    /\ CoreAside

Report(ok) ==
    /\ core.at = "report"
    /\ core' = report(core, ok)
    /\ Returned(core')
    /\ CoreAside

InitCore ==
    /\ NoTree
    /\ manager = NewManager
    /\ pool = NewPool(1)
    /\ threads = NoThreads
    /\ core = NewCore

NextCore ==
    \/ Cancel
    \/ \E value \in BOOLEAN : PauseResume(value)
    \/ \E ok \in BOOLEAN : ProcessImages(ok)
    \/ \E outcome \in {"ok", "raise", "empty"} : RunStage(outcome)
    \/ CheckCanceled
    \/ \E ok \in BOOLEAN : Report(ok)

SpecCore == InitCore /\ [][NextCore]_vars

\* ---- properties --------------------------------------------------------

\* following parent_id from c through the tree ends, within n steps, at a
\* category without parent (or, as get_path does, at one whose parent is not
\* in the tree)
RECURSIVE ChainEnds(_, _, _)
ChainEnds(s, c, n) ==
    IF s.parent_id[c] = None \/ s.parent_id[c] \notin Keys(s.categories) THEN TRUE
    ELSE IF n = 0 THEN FALSE
    ELSE ChainEnds(s, s.parent_id[c], n - 1)

\* a is reached from c by following parent_id one or more times
RECURSIVE ReachedFrom(_, _, _, _)
ReachedFrom(s, a, c, n) ==
    /\ s.parent_id[c] # None
    /\ \/ s.parent_id[c] = a
       \/ n > 0 /\ ReachedFrom(s, a, s.parent_id[c], n - 1)

IsAncestor(s, a, c) == ReachedFrom(s, a, c, NumIds)

Bidirectional(s) ==
    \A c \in Keys(s.categories) :
        /\ s.parent_id[c] # None =>
              /\ s.parent_id[c] \in Keys(s.categories)
              /\ c \in s.child_ids[s.parent_id[c]]
        /\ \A k \in s.child_ids[c] :
              k \in Keys(s.categories) /\ s.parent_id[k] = c

RootsExact(s) ==
    s.root_categories = {c \in Keys(s.categories) : s.parent_id[c] = None}

Consistent(s) == Bidirectional(s) /\ RootsExact(s)

\* C1: following parent_id from any category of the tree ends at a category
\* without parent within as many steps as the tree has categories, after any
\* sequence of add_category and add_child calls.
C1_NoCycle ==
    \A c \in Keys(categories) : ChainEnds(Heap, c, Len(categories))

\* C2: parent_id and child_ids agree in both directions after any sequence
\* of add_category, remove_category and merge_categories calls.
C2_Bidirectional == Bidirectional(Heap)

\* C3: the root set is exactly the set of categories of the tree without
\* parent_id, after any sequence of shape-changing calls.
C3_RootBookkeeping == RootsExact(Heap)

\* what C4 says merge_categories(source, target) has done when it returns
MergeEffect(pre, post, source, target) ==
    /\ source \notin Keys(post.categories)
    /\ (pre.image_ids[source] \cup pre.image_ids[target]) \subseteq post.image_ids[target]
    /\ \A k \in pre.child_ids[source] \cap Keys(pre.categories) :
          post.parent_id[k] = target /\ k \in post.child_ids[target]

MergeCase ==
    /\ last'.op = "merge_categories"
    /\ last'.a # last'.b
    /\ last'.a \in Keys(categories)
    /\ last'.b \in Keys(categories)

\* C4 as stated: merge_categories(source, target) completes with the net
\* effect for ANY two distinct categories of the tree.
C4_MergeAnyPair ==
    [][MergeCase => (~last'.raised /\ MergeEffect(Heap, Heap', last'.a, last'.b))]_vars

\* target is a child of source, or the child of a child of source
TargetUnderSource(s, source, target) ==
    \/ target \in s.child_ids[source]
    \/ s.parent_id[target] \in (s.child_ids[source] \cap Keys(s.categories))

\* C4 amended: merge_categories(source, target) completes with the net
\* effect for two distinct categories of the tree when target is neither a
\* child of source nor the child of a child of source.
C4_MergeNetEffect ==
    [][(MergeCase /\ ~TargetUnderSource(Heap, last'.a, last'.b))
         => (~last'.raised /\ MergeEffect(Heap, Heap', last'.a, last'.b))]_vars

\* a merge that moved a child and an image has returned
C4_Witness ==
    /\ last.op = "merge_categories"
    /\ ~last.raised
    /\ last.a # last.b
    /\ last.a \notin Keys(categories)
    /\ last.b \in Keys(categories)
    /\ last.log # <<>>
    /\ \A i \in DOMAIN last.log : parent_id[last.log[i]] = last.b
    /\ image_ids[last.a] # {}
    /\ image_ids[last.a] \subseteq image_ids[last.b]

\* C5: add_child(child) raises and changes nothing when child is the
\* category itself or one of its ancestors at any distance.
C5_AddChildRejectsAncestors ==
    [][(/\ last'.op = "add_child"
        /\ \/ last'.b = last'.a
           \/ IsAncestor(Heap, last'.b, last'.a))
         => (last'.raised /\ Heap' = Heap)]_vars

\* C6: remove_category(id) deletes the category from the map, from the root
\* set and from its parent's child_ids, makes its direct children roots and
\* leaves everything else as it was; for an absent id it changes nothing.
RemoveFrame(pre, post, c) ==
    IF c \notin Keys(pre.categories) THEN post = pre
    ELSE LET kids == pre.child_ids[c] \cap Keys(pre.categories)
             p == pre.parent_id[c]
             \* the parent, when it is in the tree
             pin == IF p # None /\ p \in Keys(pre.categories) THEN {p} ELSE {}
         IN  /\ post.categories = DictDel(pre.categories, c)
             /\ post.root_categories = (pre.root_categories \cup kids) \ {c}
             /\ \A x \in pin : post.child_ids[x] = pre.child_ids[x] \ {c}
             /\ \A k \in kids : k # c => k \in Keys(post.categories)
             /\ \A k \in kids : post.parent_id[k] = None
             /\ \A x \in Ids \ kids : post.parent_id[x] = pre.parent_id[x]
             /\ \A x \in Ids \ pin : post.child_ids[x] = pre.child_ids[x]
             /\ post.image_ids = pre.image_ids

C6_RemoveNonCascading ==
    [][last'.op = "remove_category" => RemoveFrame(Heap, Heap', last'.a)]_vars

\* a category with a child and a grandchild in the tree has been removed:
\* the child is a root now, the grandchild is still in the tree under the
\* child, with its images
C6_Witness ==
    /\ last.op = "remove_category"
    /\ last.a \notin Keys(categories)
    /\ \E k \in child_ids[last.a] \cap Keys(categories) :
          /\ parent_id[k] = None
          /\ k \in root_categories
          /\ \E g \in child_ids[k] \cap Keys(categories) :
                parent_id[g] = k /\ image_ids[g] # {}

\* C7: add_category of an id already in the tree, add_image_to_category of an
\* unknown category and merge_categories with an unknown source or target
\* raise and leave the tree and every category unchanged.
C7_RejectedCallsHaveNoEffect ==
    [][(\/ last'.op = "add_category" /\ last'.a \in Keys(categories)
        \/ last'.op = "add_image_to_category" /\ last'.b \notin Keys(categories)
        \/ /\ last'.op = "merge_categories"
           /\ last'.a \notin Keys(categories) \/ last'.b \notin Keys(categories))
         => (last'.raised /\ Heap' = Heap)]_vars

\* a merge with an unknown id has been rejected on a tree that holds
\* categories and images
C7_Witness ==
    /\ last.op = "merge_categories"
    /\ last.raised
    /\ last.a \notin Keys(categories) \/ last.b \notin Keys(categories)
    /\ \E c \in Keys(categories) : image_ids[c] # {} /\ child_ids[c] # {}

\* C8: optimize_hierarchy(m) on a consistent tree merges every childless
\* category with fewer than m images and a parent into that parent, and
\* removes no category that had children or at least m images.
OptimizeEffect(pre, post, m, log) ==
    \A c \in Keys(pre.categories) :
        /\ (/\ pre.child_ids[c] = {}
            /\ Cardinality(pre.image_ids[c]) < m
            /\ pre.parent_id[c] # None)
              => /\ c \notin Keys(post.categories)
                 /\ pre.parent_id[c] \in Keys(post.categories)
                 /\ pre.image_ids[c] \subseteq post.image_ids[pre.parent_id[c]]
                 /\ \E i \in DOMAIN log :
                       log[i].source = c /\ log[i].target = pre.parent_id[c]
        /\ (pre.child_ids[c] # {} \/ Cardinality(pre.image_ids[c]) >= m)
              => c \in Keys(post.categories)

C8_OptimizeMergesSmallLeaves ==
    [][(last'.op = "optimize_hierarchy" /\ Consistent(Heap))
         => (~last'.raised /\ OptimizeEffect(Heap, Heap', last'.a, last'.log))]_vars

\* optimize_hierarchy has merged a leaf with an image into its parent while
\* another category stayed
C8_Witness ==
    /\ last.op = "optimize_hierarchy"
    /\ ~last.raised
    /\ Consistent(Heap)
    /\ Len(categories) >= 2
    /\ \E i \in DOMAIN last.log :
          /\ parent_id[last.log[i].source] = last.log[i].target
          /\ last.log[i].target \in Keys(categories)
          /\ last.log[i].nimages > 0

RECURSIVE Ascending(_)
Ascending(S) ==
    IF S = {} THEN <<>>
    ELSE LET m == CHOOSE x \in S : \A y \in S : x <= y
         IN  <<m>> \o Ascending(S \ {m})

\* the pre-order of the claim: a category, then the subtrees of its children
\* in ascending id order one level deeper
RECURSIVE PreOrder(_, _, _)
RECURSIVE PreOrderEach(_, _, _)
PreOrder(s, c, depth) ==
    <<<<c, depth>>>> \o
    PreOrderEach(s, Ascending(s.child_ids[c] \cap Keys(s.categories)), depth + 1)

PreOrderEach(s, ids, depth) ==
    IF ids = <<>> THEN <<>>
    ELSE PreOrder(s, Head(ids), depth) \o PreOrderEach(s, Tail(ids), depth)

\* C10: get_category_hierarchy returns the (category, depth) pairs in
\* pre-order, roots and children in ascending id order, whatever the
\* iteration order of the sets.
C10_HierarchyPreOrder ==
    last.op = "get_category_hierarchy" =>
        /\ ~last.raised
        /\ last.result = PreOrderEach(Heap, Ascending(root_categories), 0)

\* the part of C10 that holds: whenever the call returns, it returns the
\* pre-order
HierarchyPreOrderWhenReturned ==
    (last.op = "get_category_hierarchy" /\ ~last.raised) =>
        last.result = PreOrderEach(Heap, Ascending(root_categories), 0)

\* the categories met by following parent_id from c through the tree, the
\* topmost first, at most n links
RECURSIVE ChainTo(_, _, _)
ChainTo(s, c, n) ==
    IF s.parent_id[c] = None \/ s.parent_id[c] \notin Keys(s.categories) \/ n = 0
    THEN <<c>>
    ELSE Append(ChainTo(s, s.parent_id[c], n - 1), c)

PathOf(s, c) ==
    IF c \notin Keys(s.categories) THEN <<>> ELSE ChainTo(s, c, Len(s.categories))

\* C11: get_category_path(id) returns the empty list and get_category_depth(id)
\* -1 for an id not in the tree; for a category of the tree the path follows
\* parent_id through the tree up to a category without parent or with a parent
\* outside the tree, and the depth is its length minus one (0 for a root, 1
\* for a child of a root, 2 for a grandchild).
C11_DepthIsPathLength ==
    /\ last.op = "get_category_path" =>
          /\ ~last.raised
          /\ last.result = PathOf(Heap, last.a)
    /\ last.op = "get_category_depth" =>
          /\ ~last.raised
          /\ last.result = <<Len(PathOf(Heap, last.a)) - 1>>

\* the part of C11 that holds: the queries return these values whenever the
\* parent chain of the category ends, and raise otherwise
DepthWhenChainEnds ==
    /\ last.op = "get_category_path" =>
          IF last.a \in Keys(categories) /\ ~ChainEnds(Heap, last.a, Len(categories))
          THEN last.raised
          ELSE ~last.raised /\ last.result = PathOf(Heap, last.a)
    /\ last.op = "get_category_depth" =>
          IF last.a \in Keys(categories) /\ ~ChainEnds(Heap, last.a, Len(categories))
          THEN last.raised
          ELSE ~last.raised /\ last.result = <<Len(PathOf(Heap, last.a)) - 1>>

\* a grandchild has been found at depth 2
DepthTwoReturned ==
    /\ last.op = "get_category_depth"
    /\ ~last.raised
    /\ last.result = <<2>>
    /\ parent_id[parent_id[last.a]] \in root_categories

\* C20: remove_image of an id that is not a member never raises and leaves
\* image_ids and every other field of every object unchanged; add_image of an
\* id that is already a member leaves image_ids unchanged.
C20_MembershipIdempotent ==
    [][/\ (last'.op = "remove_image" /\ last'.b \notin image_ids[last'.a])
            => (~last'.raised /\ Heap' = Heap)
       /\ (last'.op = "add_image" /\ last'.b \in image_ids[last'.a])
            => (~last'.raised /\ image_ids' = image_ids)]_vars

\* an id that is not a member has been removed from a category that holds
\* another image and has a parent and a child
C20_Witness ==
    /\ last.op = "remove_image"
    /\ last.b \notin last.log[1]
    /\ last.log[1] # {}
    /\ image_ids[last.a] = last.log[1]
    /\ parent_id[last.a] # None
    /\ child_ids[last.a] # {}

\* the tags of image k and the number of images that carry tag t
TagsOf(k) == {images[k].content_tags[j] : j \in DOMAIN images[k].content_tags}

Carrying(t) == Cardinality({k \in DOMAIN images : t \in TagsOf(k)})

\* the primary tag of image k as C12 defines it (k has a tag)
PrimaryOf(k) ==
    LET tl == images[k].content_tags
        at == {j \in DOMAIN tl : Carrying(tl[j]) >= settings.min_tag_frequency}
    IN  IF at = {} THEN tl[1]
        ELSE tl[CHOOSE j \in at : \A i \in at : j <= i]

GroupOf(t) == {k \in DOMAIN images : images[k].content_tags # <<>> /\ PrimaryOf(k) = t}

FileNames(ks) == {images[k].path.name : k \in ks}

CategoriesNamed(n) == {c \in Keys(categories) : name[c] = n}

\* C12: after _group_by_primary_tags and _create_categories every primary tag
\* whose group has at least min_category_size images has exactly one category,
\* named by the title-cased tag, that holds exactly the file names of the
\* group; a smaller group and an image without tags give no category.
C12_TopLevelCategories ==
    pc = "categories" =>
        /\ \A t \in Tags :
              IF Cardinality(GroupOf(t)) >= settings.min_category_size
              THEN /\ Cardinality(CategoriesNamed(<<title[t]>>)) = 1
                   /\ \A c \in CategoriesNamed(<<title[t]>>) :
                         image_ids[c] = FileNames(GroupOf(t))
              ELSE CategoriesNamed(<<title[t]>>) = {}
        /\ \A c \in Keys(categories) : \E t \in Tags : name[c] = <<title[t]>>

\* an image has gone to the category of its second tag, its first one being
\* rare, and the group of another tag was too small for a category
C12_Witness ==
    /\ pc = "categories"
    /\ \E k \in DOMAIN images :
          /\ images[k].content_tags # <<>>
          /\ PrimaryOf(k) # images[k].content_tags[1]
          /\ \E c \in CategoriesNamed(<<title[PrimaryOf(k)]>>) :
                images[k].path.name \in image_ids[c]
    /\ \E t \in Tags : GroupOf(t) # {} /\ CategoriesNamed(<<title[t]>>) = {}

\* a category that has a subcategory
HasChild(c) == child_ids[c] # {} \/ \E k \in Keys(categories) : parent_id[k] = c

\* the primary tags whose category c is
TagsNaming(c) == {t \in Tags : name[c] = <<title[t]>>}

\* C13: categorize creates subcategories only under the category of a primary
\* tag group with at least 3 x min_category_size images.
C13_SubdividedFromThreeTimes ==
    pc \in {"subcategories", "done"} =>
        \A c \in Keys(categories) :
            HasChild(c) =>
                \E t \in TagsNaming(c) :
                    Cardinality(GroupOf(t)) >= 3 * settings.min_category_size

\* what the code does instead: the groups subdivided have at least
\* 2 x min_category_size images
SubdividedFromTwice ==
    pc \in {"subcategories", "done"} =>
        \A c \in Keys(categories) :
            HasChild(c) =>
                \E t \in TagsNaming(c) :
                    Cardinality(GroupOf(t)) >= 2 * settings.min_category_size

\* the images and arguments of Scenario 2
Scenario2 ==
    /\ settings.min_tag_frequency = 2
    /\ settings.min_category_size = 1
    /\ Len(images) = 3
    /\ images[1].content_tags = <<"beach", "sand">>
    /\ images[2].content_tags = <<"beach", "sand">>
    /\ images[3].content_tags = <<"beach", "ocean">>

\* C14: in Scenario 2 categorize returns a tree with a "Beach" category that
\* holds all three images and in which no category has a parent.
C14_Scenario2Flat ==
    (pc = "done" /\ Scenario2) =>
        /\ \E c \in CategoriesNamed(<<"Beach">>) : image_ids[c] = FileNames(1..3)
        /\ \A c \in Keys(categories) : parent_id[c] = None

\* what the code returns in Scenario 2: "Beach" with the three images and
\* under it "Beach - Sand" with the two images tagged sand
Scenario2Subdivided ==
    (pc = "done" /\ Scenario2) =>
        /\ \E c \in CategoriesNamed(<<"Beach">>) :
              /\ image_ids[c] = FileNames(1..3)
              /\ \E k \in CategoriesNamed(<<"Beach", "Sand">>) :
                    /\ parent_id[k] = c
                    /\ image_ids[k] = FileNames({1, 2})
        /\ Len(categories) = 2

\* the images of the group of t whose first tag other than t is u
SubgroupOf(t, u) ==
    {k \in GroupOf(t) :
        \E j \in DOMAIN images[k].content_tags :
            /\ images[k].content_tags[j] = u
            /\ u # t
            /\ \A i \in 1..(j - 1) : images[k].content_tags[i] = t}

\* C15: after _create_subcategories, for a primary group that is subdivided
\* and every secondary tag that is the first non-primary tag of at least
\* min_category_size images of the group, one category named
\* "<Parent> - <Secondary>" holds exactly those images.
C15_SubcategoryPerSecondaryTag ==
    pc = "subcategories" =>
        \A t \in Tags, u \in Tags :
            (/\ Cardinality(GroupOf(t)) >= SubdivideFactor * settings.min_category_size
             /\ Cardinality(GroupOf(t)) >= settings.min_category_size
             /\ SubgroupOf(t, u) # {}
             /\ Cardinality(SubgroupOf(t, u)) >= settings.min_category_size)
                => /\ Cardinality(CategoriesNamed(<<title[t], title[u]>>)) = 1
                   /\ \A c \in CategoriesNamed(<<title[t], title[u]>>) :
                         image_ids[c] = FileNames(SubgroupOf(t, u))

\* the part of C15 that holds: the same for the secondary tags that at least
\* min_tag_frequency images of the group carry
SubcategoryPerFrequentSecondaryTag ==
    pc = "subcategories" =>
        \A t \in Tags, u \in Tags :
            (/\ Cardinality(GroupOf(t)) >= SubdivideFactor * settings.min_category_size
             /\ Cardinality(GroupOf(t)) >= settings.min_category_size
             /\ SubgroupOf(t, u) # {}
             /\ Cardinality(SubgroupOf(t, u)) >= settings.min_category_size
             /\ Cardinality({k \in GroupOf(t) : Len(images[k].content_tags) > 1
                                                /\ u \in TagsOf(k)})
                   >= settings.min_tag_frequency)
                => /\ Cardinality(CategoriesNamed(<<title[t], title[u]>>)) = 1
                   /\ \A c \in CategoriesNamed(<<title[t], title[u]>>) :
                         image_ids[c] = FileNames(SubgroupOf(t, u))

\* the images of the list that are in the clusters returned
Clustered == UNION {{last.result[i][j] : j \in DOMAIN last.result[i]} : i \in DOMAIN last.result}

\* C17: the tree HierarchicalClustering returns holds no image whose feature
\* extraction failed, and the images of one cluster are those of one feature
\* vector, wherever the failing images sit in the list.
C17_FailedImagesExcluded ==
    (last.op = "clustering.categorize" /\ ~last.raised) =>
        /\ \A k \in Clustered : images[k].features # NoFeatures
        /\ \A c \in Keys(categories) : \A x \in image_ids[c] :
              \E k \in DOMAIN images :
                  images[k].path.name = x /\ images[k].features # NoFeatures
        /\ \A i \in DOMAIN last.result :
              \A j \in DOMAIN last.result[i], h \in DOMAIN last.result[i] :
                  images[last.result[i][j]].features = images[last.result[i][h]].features

\* the part of C17 that holds: the same when no extraction fails
ClustersByFeatureWhenAllExtracted ==
    (/\ last.op = "clustering.categorize"
     /\ ~last.raised
     /\ \A k \in DOMAIN images : images[k].features # NoFeatures) =>
        \A i \in DOMAIN last.result :
            \A j \in DOMAIN last.result[i], h \in DOMAIN last.result[i] :
                images[last.result[i][j]].features = images[last.result[i][h]].features

\* the clusters with at least min_cluster_size members, by their place in
\* cluster_groups (last.log)
Eligible == {i \in DOMAIN last.log : Len(last.log[i]) >= settings.min_cluster_size}

\* a choice of kept clusters: place i of the tree's categories holds the
\* images of cluster kept[i]
KeptIs(kept) ==
    /\ \A i \in DOMAIN kept, j \in DOMAIN kept : kept[i] = kept[j] => i = j
    /\ \A i \in DOMAIN kept :
          image_ids[categories[i]] = {images[k].path.name :
                                         k \in {last.log[kept[i]][j] :
                                                   j \in DOMAIN last.log[kept[i]]}}
    /\ \A g \in Eligible :
          (\A i \in DOMAIN kept : kept[i] # g) =>
              \A i \in DOMAIN kept : Len(last.log[g]) <= Len(last.log[kept[i]])

C16_HybridEitherOr ==
    last.op = "hybrid.categorize" =>
        LET content == content_categorize(images, settings)
            clustering == clustering_categorize(images, settings)
        IN  IF ~content.raised /\ Len(content.tree.categories) >= 3
            THEN /\ ~last.raised
                 /\ last.log = <<"content">>
                 /\ NamedHeap = content.tree
            ELSE /\ last.log = <<"content", "clustering">>
                 /\ last.raised = clustering.raised
                 /\ ~last.raised => NamedHeap = run_after(content.tree, clustering.tree)

\* the content tree had 2 categories and the tree returned is the one of the
\* clustering, with a cluster in it
C16_Witness ==
    /\ last.op = "hybrid.categorize"
    /\ ~last.raised
    /\ last.log = <<"content", "clustering">>
    /\ Len(content_categorize(images, settings).tree.categories) = 2
    /\ categories # <<>>
    /\ NamedHeap # content_categorize(images, settings).tree

\* the content tree had exactly 3 categories and was returned
HybridKeptContentTree ==
    /\ last.op = "hybrid.categorize"
    /\ last.log = <<"content">>
    /\ Len(categories) = 3
    /\ ~clustering_categorize(images, settings).raised

\* C19: CategorizationService.categorize returns the tree of its algorithm or
\* raises CategorizationError: whatever exception the algorithm raises, the
\* caller gets CategorizationError and no tree.
C19_ServiceWrapsEveryError ==
    last.op = "service.categorize" =>
        LET r == algorithm_categorize(last.log[1], images, settings)
        IN  IF r.raised
            THEN /\ last.raised
                 /\ last.result = <<"CategorizationError">>
                 /\ NamedHeap = EmptyTree
            ELSE /\ ~last.raised
                 /\ NamedHeap = r.tree

\* an algorithm that raised Exception has been called through the service,
\* and the caller got CategorizationError
C19_Witness ==
    /\ last.op = "service.categorize"
    /\ last.log = <<"failing">>
    /\ last.raised
    /\ last.result = <<"CategorizationError">>
    /\ pc = "raised"

\* ---- StateManager: properties ----------------------------------------------

\* the eleven pairs of the transition table: <<state, event, new state>>
ElevenPairs ==
    {<<"idle", "start", "running">>,
     <<"running", "pause", "paused">>, <<"running", "cancel", "canceling">>,
     <<"running", "complete", "completed">>, <<"running", "fail", "failed">>,
     <<"paused", "resume", "running">>, <<"paused", "cancel", "canceling">>,
     <<"canceling", "complete", "completed">>, <<"canceling", "fail", "failed">>,
     <<"completed", "start", "running">>, <<"failed", "start", "running">>}

\* the position in the record at which the call recorded at position i returns
ReturnOf(log, i) ==
    CHOOSE j \in DOMAIN log :
        /\ j > i
        /\ log[j].kind = "return"
        /\ log[j].depth = log[i].depth
        /\ \A k \in DOMAIN log :
               (k > i /\ k < j) => ~(log[k].kind = "return" /\ log[k].depth = log[i].depth)

\* C21: every call of transition(event), from outside or from a callback,
\* that finds a (state, event) pair of the table assigns the new state of that
\* pair and returns True; every other call returns False at once, with the
\* state unchanged and no callback invoked; the state is assigned nowhere else.
C21_OnlyTheElevenPairs ==
    last.op = "transition" =>
        /\ last.log[1].kind = "call" /\ last.log[1].state = last.b
        /\ last.log[1].event = last.a
        /\ last.result = <<last.log[Len(last.log)].value>>
        /\ manager.state = last.log[Len(last.log)].state
        /\ \A i \in DOMAIN last.log :
              /\ last.log[i].kind = "call" =>
                    IF \E p \in ElevenPairs : p[1] = last.log[i].state /\ p[2] = last.log[i].event
                    THEN /\ last.log[i + 1].kind = "set"
                         /\ <<last.log[i].state, last.log[i].event, last.log[i + 1].state>>
                                \in ElevenPairs
                         /\ last.log[ReturnOf(last.log, i)].value = TRUE
                    ELSE /\ last.log[i + 1].kind = "return"
                         /\ last.log[i + 1].value = FALSE
                         /\ last.log[i + 1].state = last.log[i].state
              /\ last.log[i].kind = "set" => last.log[i - 1].kind = "call"
              /\ last.log[i].kind # "set" => last.log[i].state = last.log[i].from
              /\ i > 1 => last.log[i].from = last.log[i - 1].state

\* RESUME was sent while RUNNING, with a callback registered for RESUME and
\* one for RUNNING: False came back
C21_Witness ==
    /\ last.op = "transition"
    /\ last.a = "resume" /\ last.b = "running"
    /\ last.result = <<FALSE>>
    /\ manager.event_callbacks["resume"] # <<>>
    /\ manager.state_change_callbacks["running"] # <<>>

\* the callbacks the call recorded at position i invoked itself, in order:
\* what was called and the event or state it is registered for
InvokedBy(log, i) ==
    LET own == SelectSeq(SubSeq(log, i + 1, ReturnOf(log, i) - 1),
                         LAMBDA x : x.kind = "callback" /\ x.depth = log[i].depth)
    IN  [k \in DOMAIN own |-> <<own[k].callback, own[k].key>>]

\* the registrations for key k of a callback dict, in order
RegisteredFor(dict, k) == [j \in DOMAIN dict[k] |-> <<dict[k][j], k>>]

\* C22: a call of transition that finds a pair of the table invokes, once per
\* registration and in this order, the callbacks registered for the event and
\* then those registered for the new state, whether or not one of them raises,
\* and returns True; unless a callback sent another event, the state at the
\* return is the new state.
C22_CallbacksOnceEventFirst ==
    last.op = "transition" =>
        \A i \in DOMAIN last.log :
            (last.log[i].kind = "call" /\ last.log[i + 1].kind = "set") =>
                /\ InvokedBy(last.log, i) =
                       RegisteredFor(manager.event_callbacks, last.log[i].event)
                           \o RegisteredFor(manager.state_change_callbacks,
                                            last.log[i + 1].state)
                /\ last.log[ReturnOf(last.log, i)].value = TRUE
                /\ (\A k \in DOMAIN last.log :
                        (k > i /\ k < ReturnOf(last.log, i)) => last.log[k].kind # "call")
                       => last.log[ReturnOf(last.log, i)].state = last.log[i + 1].state

\* START was sent while IDLE; the callback registered for START raised and
\* the one registered for RUNNING was invoked after it
C22_Witness ==
    /\ last.op = "transition"
    /\ last.a = "start" /\ last.b = "idle"
    /\ last.result = <<TRUE>>
    /\ manager.state = "running"
    /\ Len(last.log) = 5
    /\ last.log[3].kind = "callback" /\ last.log[3].callback.kind = "raise"
    /\ last.log[3].key = "start"
    /\ last.log[4].kind = "callback" /\ last.log[4].key = "running"

\* C29: whenever a callback registered for state S is invoked, the manager's
\* state is S, also when a callback of the same transition has called
\* transition itself.
C29_StateCallbackSeesItsState ==
    last.op = "transition" =>
        \A i \in DOMAIN last.log :
            (last.log[i].kind = "callback" /\ last.log[i].key \in ProcessingState) =>
                last.log[i].state = last.log[i].key

\* a callback registered for state S finds the state S when no callback of
\* the call has sent an event
StateCallbackSeesItsStateWithoutReentry ==
    (/\ last.op = "transition"
     /\ \A i \in DOMAIN last.log : i > 1 => last.log[i].kind # "call") =>
        \A i \in DOMAIN last.log :
            (last.log[i].kind = "callback" /\ last.log[i].key \in ProcessingState) =>
                last.log[i].state = last.log[i].key

\* ---- WorkerPool, TaskScheduler: properties ---------------------------------

\* C23: when process_batch returns after cancel_check has returned True at a
\* poll of the monitor thread, pool.canceled is True.
C23_CanceledWhenBatchReturns ==
    (last.op = "process_batch" /\ ~last.raised /\ last.log = <<TRUE>>) =>
        last.result = <<TRUE>>

\* the cancellation is lost: the monitor thread has polled True, has run
\* cancel() to its end and has left its loop, and process_batch returns every
\* result with pool.canceled False
LostCancel ==
    /\ threads.main = "returned"
    /\ threads.monitor = "exited"
    /\ threads.polled
    /\ ~pool.canceled
    /\ Len(pool.results) = NumItems

\* once map has passed its first lines, canceled stays set
CanceledStaysSetAfterReset ==
    [][(pool.canceled /\ threads.main \notin {"idle", "map"}) => pool'.canceled]_vars

\* C30: once cancel() has set canceled, no worker calls func on an item whose
\* func it had not yet called; a worker that cancel() wakes out of the pause
\* wait returns without calling func.
C30_NoFuncAfterCancel ==
    \A k \in DOMAIN pool.futures :
        /\ ~pool.futures[k].late
        /\ pool.futures[k].woken => ~pool.futures[k].called

\* a worker that cancel() woke out of the pause wait has called func
WokenByCancelCalledFunc ==
    \E k \in DOMAIN pool.futures :
        pool.futures[k].woken /\ pool.futures[k].called /\ pool.futures[k].late

\* a worker that has not passed the test of canceled at the head of
\* wrapped_func when canceled is set does not go on to func
NotStartedStaysOut ==
    [][\A k \in DOMAIN pool.futures :
          (pool.canceled /\ pool.futures[k].at \in {"queue", "check"} /\ pool'.canceled) =>
              /\ pool'.futures[k].at \in {"queue", "check", "done"}
              /\ ~pool'.futures[k].called]_vars

\* ---- ApplicationCore: properties --------------------------------------------

\* C24: when the canceled flag was set before the last test of it, before
\* process_images was entered included, process_images logs "Operation
\* canceled", returns (False, None) and passes no test of the flag on to a
\* later stage.
C24_CanceledStopsPipeline ==
    (core.at = "returned" /\ core.requested) =>
        /\ last.op = "process_images"
        /\ \E i \in DOMAIN last.log : last.log[i] = "Operation canceled"
        /\ last.result = <<FALSE, None>>
        /\ ~core.overrun

\* the flag was set before process_images was entered, and process_images
\* ran every stage and returned (True, report)
CancelBeforeEntryLost ==
    /\ core.at = "returned"
    /\ core.requested /\ core.overrun
    /\ ~core.canceled
    /\ last.result = <<TRUE, "report">>
    /\ Len(core.started) = Len(Pipeline) + 2

\* a flag that is set when a test of it is reached ends the call there
\* with "Operation canceled" and (False, None)
CanceledAtCheckStops ==
    [][(core.at = "check" /\ core.canceled /\ core'.at # "check") =>
          /\ core'.at = "returned"
          /\ core'.messages = Append(core.messages, "Operation canceled")
          /\ core'.started = core.started
          /\ last'.result = <<FALSE, None>>]_vars

\* ---- optimize_hierarchy and the images of the tree -------------------------

\* C25: optimize_hierarchy never loses an image: whatever the tree and the
\* threshold, get_all_images() returns the same set after the call as before
\* it.
C25_OptimizeKeepsAllImages ==
    [][(last'.op = "optimize_hierarchy" /\ nops' = nops + 1)
         => get_all_images(Heap') = get_all_images(Heap)]_vars

\* optimize_hierarchy has merged away a category that held an image
C25_Witness ==
    /\ last.op = "optimize_hierarchy"
    /\ ~last.raised
    /\ \E i \in 1..Len(last.log) :
         /\ last.log[i].nimages > 0
         /\ last.log[i].source \notin Keys(categories)
    /\ get_all_images(Heap) # {}

\* ---- get_category_hierarchy and get_category_depth -------------------------

\* how often get_category_hierarchy lists category c at depth d
Listed(result, c, d) ==
    Cardinality({i \in 1..Len(result) : result[i] = <<c, d>>})

\* how often get_category_hierarchy lists category c at all
ListedAtAll(result, c) ==
    Cardinality({i \in 1..Len(result) : result[i][1] = c})

\* the list returned has every category of the tree exactly once, at the
\* depth get_category_depth returns for it
HierarchyExact(s, perm) ==
    LET h == get_category_hierarchy(s, perm)
    IN  /\ ~h.raised
        /\ \A c \in Keys(s.categories) :
              /\ ~get_category_depth(s, c).raised
              /\ ListedAtAll(h.result, c) = 1
              /\ Listed(h.result, c, get_category_depth(s, c).result) = 1

\* C26: after any sequence of add_category, add_child on categories of the
\* tree, remove_category, merge_categories and optimize_hierarchy,
\* get_category_hierarchy lists every category of the tree exactly once, at
\* the depth that get_category_depth reports for it.
C26_HierarchyListsEachOnce ==
    \A perm \in HashOrders : HierarchyExact(Heap, perm)

\* a subcategory attached with add_child is listed twice: as a root at depth
\* 0 and under its parent at depth 1
SubcategoryListedTwice ==
    \E perm \in HashOrders, c \in Keys(categories) :
        LET h == get_category_hierarchy(Heap, perm)
        IN  /\ ~h.raised
            /\ Listed(h.result, c, 0) = 1
            /\ Listed(h.result, c, 1) = 1
            /\ get_category_depth(Heap, c).result = 1

\* on a tree whose links agree in both directions, whose root set is exactly
\* the parentless categories and whose parent chains end, the list is exact
HierarchyExactOnConsistentTree ==
    (/\ Consistent(Heap)
     /\ \A c \in Keys(categories) : ChainEnds(Heap, c, Len(categories)))
        => \A perm \in HashOrders : HierarchyExact(Heap, perm)

\* ---- merge_categories and cycles ------------------------------------------

\* every parent_id chain of the tree ends at a category without parent
ChainsEnd(s) ==
    \A c \in Keys(s.categories) : ChainEnds(s, c, Len(s.categories))

\* C27: merge_categories keeps the tree acyclic: whenever
\* merge_categories(source, target) returns normally on a consistent tree in
\* which every parent_id chain ends at a root, every parent_id chain of the
\* resulting tree still ends at a root, also when target is a descendant of
\* source at any depth.
C27_MergeKeepsAcyclic ==
    [][(/\ last'.op = "merge_categories"
        /\ nops' = nops + 1
        /\ ~last'.raised
        /\ Consistent(Heap)
        /\ ChainsEnd(Heap))
         => ChainsEnd(Heap')]_vars

\* a merge has returned normally and three categories of the tree are each
\* other's ancestors: the target, the parent it had and the child of the
\* source it was given
MergeClosedCycle ==
    /\ last.op = "merge_categories"
    /\ ~last.raised
    /\ last.a \notin Keys(categories)
    /\ \E a \in Keys(categories), b \in Keys(categories) :
         /\ Cardinality({a, b, last.b}) = 3
         /\ parent_id[last.b] = b
         /\ parent_id[b] = a
         /\ parent_id[a] = last.b

\* a merge that returns normally into a target that is not a descendant of
\* the source keeps the chains ending
MergeOutsideKeepsAcyclic ==
    [][(/\ last'.op = "merge_categories"
        /\ nops' = nops + 1
        /\ ~last'.raised
        /\ Consistent(Heap)
        /\ ChainsEnd(Heap)
        /\ last'.a \in Keys(categories)
        /\ last'.b \in Keys(categories)
        /\ ~ReachedFrom(Heap, last'.a, last'.b, NumIds + 1))
         => ChainsEnd(Heap')]_vars

\* ---- image.categories ------------------------------------------------------

\* the ids in image.categories of image k name categories of the tree that
\* hold the image
NotedInTree(k) ==
    \A i \in DOMAIN images[k].categories :
        /\ images[k].categories[i] \in Keys(categories)
        /\ images[k].path.name \in image_ids[images[k].categories[i]]

\* a categorize call has returned a tree
TreeReturned ==
    /\ last.op \in {"categorize", "clustering.categorize", "hybrid.categorize"}
    /\ ~last.raised
    /\ pc = "done"

\* C28: when a categorize call (ContentBasedCategorization,
\* HierarchicalClustering or HybridCategorization) returns a tree, every
\* category id recorded in an input image's categories list names a category
\* that is present in the returned tree and contains that image.
C28_NotedCategoriesInTree ==
    TreeReturned => \A k \in DOMAIN images : NotedInTree(k)

\* the hybrid algorithm has returned the clustering tree and an image still
\* lists a category of the content tree
NotedInDiscardedTree ==
    /\ TreeReturned
    /\ last.log = <<"content", "clustering">>
    /\ \E k \in DOMAIN images :
          \E i \in DOMAIN images[k].categories :
              images[k].categories[i] \notin CatIds

\* when the hybrid algorithm keeps the content tree, the lists name
\* categories of the returned tree that hold the image
NotedInKeptContentTree ==
    (TreeReturned /\ last.log = <<"content">>)
        => \A k \in DOMAIN images : NotedInTree(k)

====
